---- MODULE Spec2Model ----
(***************************************************************************)
(* clox-rs: a single-pass bytecode compiler (scanner + Pratt parser) and   *)
(* a stack VM for an expression language.  The model follows the Rust      *)
(* sources function by function: src/src/value.rs, src/src/chunk.rs,       *)
(* src/src/scanner.rs, src/src/compiler.rs, src/src/vm.rs, src/src/main.rs.*)
(*                                                                         *)
(* Text is a sequence of one-character strings (the scanner works on the   *)
(* bytes of the source).  An f64 is a record [c, s, n, d]: class ("fin",   *)
(* "inf", "nan"), sign (1 or -1), and for a finite value the reduced       *)
(* fraction n/d; both zeroes exist (n = 0, s = 1 or -1).  Finite results   *)
(* are kept as exact fractions: binary64 rounding and overflow are outside *)
(* the values the bounded sources can produce by +, -, * and are not       *)
(* modelled for /.                                                         *)
(***************************************************************************)
EXTENDS Integers, Sequences, FiniteSets, TLC

(***************************************************************************)
(* f64 (the payload of Value::Number)                                      *)
(***************************************************************************)
RECURSIVE GCD(_, _)
GCD(a, b) == IF b = 0 THEN a ELSE GCD(b, a % b)

Abs(x) == IF x < 0 THEN -x ELSE x

NaN == [c |-> "nan", s |-> 1, n |-> 0, d |-> 1]

Inf(sg) == [c |-> "inf", s |-> sg, n |-> 0, d |-> 1]

Zero(sg) == [c |-> "fin", s |-> sg, n |-> 0, d |-> 1]

\* the finite value sg * n / d (n >= 0, d >= 1), reduced
Fin(sg, n, d) ==
    IF n = 0 THEN Zero(sg)
    ELSE LET g == GCD(n, d) IN [c |-> "fin", s |-> sg, n |-> n \div g, d |-> d \div g]

IsNaN(x) == x.c = "nan"

IsInf(x) == x.c = "inf"

IsZero(x) == x.c = "fin" /\ x.n = 0

\* -x : flips the sign bit (a NaN stays a NaN)
f64_neg(x) == IF IsNaN(x) THEN NaN ELSE [x EXCEPT !.s = -x.s]

\* a + b
f64_add(a, b) ==
    IF IsNaN(a) \/ IsNaN(b) THEN NaN
    ELSE IF IsInf(a) THEN (IF IsInf(b) /\ b.s # a.s THEN NaN ELSE a)
    ELSE IF IsInf(b) THEN b
    ELSE LET num == a.s * a.n * b.d + b.s * b.n * a.d
             den == a.d * b.d
         IN  IF num = 0
             THEN (IF IsZero(a) /\ IsZero(b) /\ a.s = -1 /\ b.s = -1
                   THEN Zero(-1) ELSE Zero(1))
             ELSE Fin(IF num < 0 THEN -1 ELSE 1, Abs(num), den)

\* a - b
f64_sub(a, b) == f64_add(a, f64_neg(b))

\* a * b
f64_mul(a, b) ==
    IF IsNaN(a) \/ IsNaN(b) THEN NaN
    ELSE IF (IsInf(a) /\ IsZero(b)) \/ (IsZero(a) /\ IsInf(b)) THEN NaN
    ELSE IF IsInf(a) \/ IsInf(b) THEN Inf(a.s * b.s)
    ELSE Fin(a.s * b.s, a.n * b.n, a.d * b.d)

\* a / b : division by a zero is no error (inf, or NaN for 0/0)
f64_div(a, b) ==
    IF IsNaN(a) \/ IsNaN(b) THEN NaN
    ELSE IF IsInf(a) THEN (IF IsInf(b) THEN NaN ELSE Inf(a.s * b.s))
    ELSE IF IsInf(b) THEN Zero(a.s * b.s)
    ELSE IF IsZero(b) THEN (IF IsZero(a) THEN NaN ELSE Inf(a.s * b.s))
    ELSE Fin(a.s * b.s, a.n * b.d, a.d * b.n)

\* a < b
f64_lt(a, b) ==
    /\ ~IsNaN(a)
    /\ ~IsNaN(b)
    /\ IF IsInf(a) THEN a.s = -1 /\ ~(IsInf(b) /\ b.s = -1)
       ELSE IF IsInf(b) THEN b.s = 1
       ELSE a.s * a.n * b.d < b.s * b.n * a.d

\* a > b
f64_gt(a, b) == f64_lt(b, a)

\* a == b : NaN equals nothing, 0.0 == -0.0
f64_eq(a, b) ==
    /\ ~IsNaN(a)
    /\ ~IsNaN(b)
    /\ (a = b \/ (IsZero(a) /\ IsZero(b)))

(***************************************************************************)
(* value.rs                                                                *)
(***************************************************************************)
Nil == [tag |-> "Nil"]

Bool(b) == [tag |-> "Bool", b |-> b]

Number(x) == [tag |-> "Number", num |-> x]

\* #[derive(PartialEq)] on Value
\* an equality of the representations: the derived PartialEq with f64 compared by its bits
value_eq_structural(a, b) == a = b

value_eq(a, b) ==
    /\ a.tag = b.tag
    /\ CASE a.tag = "Nil" -> TRUE
         [] a.tag = "Bool" -> a.b = b.b
         [] OTHER -> f64_eq(a.num, b.num)

\* an is_falsey for which the number 0 is falsey too
is_falsey_zero(v) ==
    \/ v.tag = "Nil"
    \/ (v.tag = "Bool" /\ v.b = FALSE)
    \/ (v.tag = "Number" /\ IsZero(v.num))

is_falsey(v) == v.tag = "Nil" \/ (v.tag = "Bool" /\ v.b = FALSE)

\* a ValueArray::add that interns: an equal entry is not pushed again
ValueArray_add_dedup(values, value) ==
    IF \E i \in 1..Len(values) : values[i] = value THEN values ELSE Append(values, value)

\* ValueArray::add : push, and return the index of the new entry
ValueArray_add_values(values, value) == Append(values, value)

ValueArray_add_index(values, value) == Len(ValueArray_add_values(values, value)) - 1

ValueArray_get(values, i) == values[i + 1]

(***************************************************************************)
(* chunk.rs                                                                *)
(***************************************************************************)
OP_RETURN == 0
OP_CONSTANT == 1
OP_NEGATE == 2
OP_ADD == 3
OP_SUBTRACT == 4
OP_MULTIPLY == 5
OP_DIVIDE == 6
OP_NIL == 7
OP_TRUE == 8
OP_FALSE == 9
OP_NOT == 10
OP_EQUAL == 11
OP_GREATER == 12
OP_LESS == 13

OpCodes ==
    {OP_RETURN, OP_CONSTANT, OP_NEGATE, OP_ADD, OP_SUBTRACT, OP_MULTIPLY, OP_DIVIDE,
     OP_NIL, OP_TRUE, OP_FALSE, OP_NOT, OP_EQUAL, OP_GREATER, OP_LESS}

\* enum OpCode: the variants in the order of their declaration
OpCode ==
    <<"Return", "Constant", "Negate", "Add", "Subtract", "Multiply", "Divide", "Nil",
      "True", "False", "Not", "Equal", "Greater", "Less">>

\* `opcode as u8`: with #[repr(u8)] and no explicit discriminant the variants
\* are numbered from 0 in the order of their declaration
OpCode_as_u8(opcode) == (CHOOSE i \in DOMAIN OpCode : OpCode[i] = opcode) - 1

\* a match in which the arms of 12 and 13 are exchanged
try_from_exchanged(value) ==
    CASE value = 0 -> [ok |-> TRUE, op |-> "Return"]
      [] value = 1 -> [ok |-> TRUE, op |-> "Constant"]
      [] value = 2 -> [ok |-> TRUE, op |-> "Negate"]
      [] value = 3 -> [ok |-> TRUE, op |-> "Add"]
      [] value = 4 -> [ok |-> TRUE, op |-> "Subtract"]
      [] value = 5 -> [ok |-> TRUE, op |-> "Multiply"]
      [] value = 6 -> [ok |-> TRUE, op |-> "Divide"]
      [] value = 7 -> [ok |-> TRUE, op |-> "Nil"]
      [] value = 8 -> [ok |-> TRUE, op |-> "True"]
      [] value = 9 -> [ok |-> TRUE, op |-> "False"]
      [] value = 10 -> [ok |-> TRUE, op |-> "Not"]
      [] value = 11 -> [ok |-> TRUE, op |-> "Equal"]
      [] value = 12 -> [ok |-> TRUE, op |-> "Less"]
      [] value = 13 -> [ok |-> TRUE, op |-> "Greater"]
      [] OTHER -> [ok |-> FALSE, op |-> ""]

\* the match of OpCode::try_from: the variant a byte stands for, or Err(())
try_from(value) ==
    CASE value = 0 -> [ok |-> TRUE, op |-> "Return"]
      [] value = 1 -> [ok |-> TRUE, op |-> "Constant"]
      [] value = 2 -> [ok |-> TRUE, op |-> "Negate"]
      [] value = 3 -> [ok |-> TRUE, op |-> "Add"]
      [] value = 4 -> [ok |-> TRUE, op |-> "Subtract"]
      [] value = 5 -> [ok |-> TRUE, op |-> "Multiply"]
      [] value = 6 -> [ok |-> TRUE, op |-> "Divide"]
      [] value = 7 -> [ok |-> TRUE, op |-> "Nil"]
      [] value = 8 -> [ok |-> TRUE, op |-> "True"]
      [] value = 9 -> [ok |-> TRUE, op |-> "False"]
      [] value = 10 -> [ok |-> TRUE, op |-> "Not"]
      [] value = 11 -> [ok |-> TRUE, op |-> "Equal"]
      [] value = 12 -> [ok |-> TRUE, op |-> "Greater"]
      [] value = 13 -> [ok |-> TRUE, op |-> "Less"]
      [] OTHER -> [ok |-> FALSE, op |-> ""]

\* OpCode::try_from(u8): Ok for the 14 opcodes, Err for every other byte.  The
\* VM holds a variant as its discriminant.
OpCode_try_from(value) ==
    LET r == try_from(value) IN
    IF r.ok THEN [ok |-> TRUE, op |-> OpCode_as_u8(r.op)] ELSE [ok |-> FALSE, op |-> value]

Chunk_new == [code |-> <<>>, constants |-> <<>>, lines |-> <<>>]

Chunk_write(chunk, byte, line) ==
    [chunk EXCEPT !.code = Append(@, byte), !.lines = Append(@, line)]

Chunk_get_code(chunk, i) == chunk.code[i + 1]

Chunk_get_line(chunk, i) == chunk.lines[i + 1]

(***************************************************************************)
(* scanner.rs                                                              *)
(***************************************************************************)
ASCII_DIGIT == {"0", "1", "2", "3", "4", "5", "6", "7", "8", "9"}

ASCII_ALPHABETIC ==
    {"a", "b", "c", "d", "e", "f", "g", "h", "i", "j", "k", "l", "m",
     "n", "o", "p", "q", "r", "s", "t", "u", "v", "w", "x", "y", "z",
     "A", "B", "C", "D", "E", "F", "G", "H", "I", "J", "K", "L", "M",
     "N", "O", "P", "Q", "R", "S", "T", "U", "V", "W", "X", "Y", "Z"}

\* the '\0' that peek and peek_next give at the end of the source
NUL == "NUL"

Scanner_new(source) == [source |-> source, start |-> 0, current |-> 0, line |-> 1]

\* self.source.as_bytes()[i] as char
ByteAt(sc, i) == sc.source[i + 1]

is_at_end(sc) == sc.current >= Len(sc.source)

\* Scanner::advance: the scanner after it; the char it returns is ByteAt(sc, sc.current)
Scanner_advance(sc) == [sc EXCEPT !.current = @ + 1]

peek(sc) == IF is_at_end(sc) THEN NUL ELSE ByteAt(sc, sc.current)

peek_next(sc) == IF sc.current + 1 >= Len(sc.source) THEN NUL ELSE ByteAt(sc, sc.current + 1)

match_ch(sc, expected) ==
    IF is_at_end(sc) \/ ByteAt(sc, sc.current) # expected
    THEN [ok |-> FALSE, sc |-> sc]
    ELSE [ok |-> TRUE, sc |-> [sc EXCEPT !.current = @ + 1]]

make_token(sc, kind) ==
    [kind |-> kind, lexeme |-> SubSeq(sc.source, sc.start + 1, sc.current), line |-> sc.line]

\* the lexeme of an Error token is the static message, kept as one item
error_token(sc, message) == [kind |-> "Error", lexeme |-> <<message>>, line |-> sc.line]

\* a check_keyword that takes the lexeme for the keyword when it begins with it
check_keyword_prefix(sc, start, rest, kind) ==
    IF /\ sc.current - sc.start >= start + Len(rest)
       /\ SubSeq(sc.source, sc.start + start + 1, sc.start + start + Len(rest)) = rest
    THEN kind
    ELSE "Identifier"

\* the inner loop of skip_whitespace: a comment goes until the end of the line
\* a comment loop that takes the line end with the comment
RECURSIVE skip_comment_line(_)
skip_comment_line(sc) ==
    IF is_at_end(sc) THEN sc
    ELSE IF peek(sc) = "\n" THEN Scanner_advance(sc)
    ELSE skip_comment_line(Scanner_advance(sc))

RECURSIVE skip_comment(_)
skip_comment(sc) ==
    IF peek(sc) # "\n" /\ ~is_at_end(sc) THEN skip_comment(Scanner_advance(sc)) ELSE sc

RECURSIVE skip_whitespace(_)
skip_whitespace(sc) ==
    LET ch == peek(sc) IN
    IF ch \in {" ", "\r", "\t"} THEN skip_whitespace(Scanner_advance(sc))
    ELSE IF ch = "\n" THEN skip_whitespace(Scanner_advance([sc EXCEPT !.line = @ + 1]))
    ELSE IF ch = "/" /\ peek_next(sc) = "/" THEN skip_whitespace(skip_comment(sc))
    ELSE sc

check_keyword(sc, start, rest, kind) ==
    IF /\ sc.current - sc.start = start + Len(rest)
       /\ SubSeq(sc.source, sc.start + start + 1, sc.start + start + Len(rest)) = rest
    THEN kind
    ELSE "Identifier"

identifier_type(sc) ==
    LET c0 == ByteAt(sc, sc.start) IN
    CASE c0 = "a" -> check_keyword(sc, 1, <<"n", "d">>, "And")
      [] c0 = "c" -> check_keyword(sc, 1, <<"l", "a", "s", "s">>, "Class")
      [] c0 = "e" -> check_keyword(sc, 1, <<"l", "s", "e">>, "Else")
      [] c0 = "i" -> check_keyword(sc, 1, <<"f">>, "If")
      [] c0 = "n" -> check_keyword(sc, 1, <<"i", "l">>, "Nil")
      [] c0 = "o" -> check_keyword(sc, 1, <<"r">>, "Or")
      [] c0 = "p" -> check_keyword(sc, 1, <<"r", "i", "n", "t">>, "Print")
      [] c0 = "r" -> check_keyword(sc, 1, <<"e", "t", "u", "r", "n">>, "Return")
      [] c0 = "s" -> check_keyword(sc, 1, <<"u", "p", "e", "r">>, "Super")
      [] c0 = "v" -> check_keyword(sc, 1, <<"a", "r">>, "Var")
      [] c0 = "w" -> check_keyword(sc, 1, <<"h", "i", "l", "e">>, "While")
      [] c0 = "f" ->
            IF sc.current - sc.start > 1
            THEN LET c1 == ByteAt(sc, sc.start + 1) IN
                 CASE c1 = "a" -> check_keyword(sc, 2, <<"l", "s", "e">>, "False")
                   [] c1 = "o" -> check_keyword(sc, 2, <<"r">>, "For")
                   [] c1 = "u" -> check_keyword(sc, 2, <<"n">>, "Fun")
                   [] OTHER -> "Identifier"
            ELSE "Identifier"
      [] c0 = "t" ->
            IF sc.current - sc.start > 1
            THEN LET c1 == ByteAt(sc, sc.start + 1) IN
                 CASE c1 = "h" -> check_keyword(sc, 2, <<"i", "s">>, "This")
                   [] c1 = "r" -> check_keyword(sc, 2, <<"u", "e">>, "True")
                   [] OTHER -> "Identifier"
            ELSE "Identifier"
      [] OTHER -> "Identifier"

\* the offsets of the source check_keyword reads
check_keyword_reads(sc, start, rest) ==
    IF sc.current - sc.start = start + Len(rest)
    THEN (sc.start + start)..(sc.start + start + Len(rest) - 1)
    ELSE {}

\* the rest check_keyword is called with after the first character c0, and
\* after the first two characters c0 and c1 of the two-level branches
RestAfterOne ==
    [c0 \in {"a", "c", "e", "i", "n", "o", "p", "r", "s", "v", "w"} |->
        CASE c0 = "a" -> <<"n", "d">>
          [] c0 = "c" -> <<"l", "a", "s", "s">>
          [] c0 = "e" -> <<"l", "s", "e">>
          [] c0 = "i" -> <<"f">>
          [] c0 = "n" -> <<"i", "l">>
          [] c0 = "o" -> <<"r">>
          [] c0 = "p" -> <<"r", "i", "n", "t">>
          [] c0 = "r" -> <<"e", "t", "u", "r", "n">>
          [] c0 = "s" -> <<"u", "p", "e", "r">>
          [] c0 = "v" -> <<"a", "r">>
          [] c0 = "w" -> <<"h", "i", "l", "e">>]

RestAfterTwo ==
    [c \in {<<"f", "a">>, <<"f", "o">>, <<"f", "u">>, <<"t", "h">>, <<"t", "r">>} |->
        CASE c = <<"f", "a">> -> <<"l", "s", "e">>
          [] c = <<"f", "o">> -> <<"r">>
          [] c = <<"f", "u">> -> <<"n">>
          [] c = <<"t", "h">> -> <<"i", "s">>
          [] c = <<"t", "r">> -> <<"u", "e">>]

\* the offsets of the source identifier_type reads, check_keyword included
identifier_reads(sc) ==
    LET c0 == ByteAt(sc, sc.start) IN
    {sc.start} \cup
    (IF c0 \in DOMAIN RestAfterOne THEN check_keyword_reads(sc, 1, RestAfterOne[c0])
     ELSE IF c0 \in {"f", "t"} /\ sc.current - sc.start > 1
          THEN {sc.start + 1} \cup
               (IF <<c0, ByteAt(sc, sc.start + 1)>> \in DOMAIN RestAfterTwo
                THEN check_keyword_reads(sc, 2, RestAfterTwo[<<c0, ByteAt(sc, sc.start + 1)>>])
                ELSE {})
     ELSE {})

\* the loop of Scanner::identifier
RECURSIVE identifier_loop(_)
identifier_loop(sc) ==
    LET ch == peek(sc) IN
    IF ch \in ASCII_ALPHABETIC \/ ch \in ASCII_DIGIT \/ ch = "_"
    THEN identifier_loop(Scanner_advance(sc))
    ELSE sc

\* a token made by make_token, with the scanner that made it
Made(sc, kind) == [tok |-> make_token(sc, kind), sc |-> sc]

\* Scanner::identifier, after its loop
identifier_end(sc) == Made(sc, identifier_type(sc))

Scanner_identifier(sc) == identifier_end(identifier_loop(sc))

\* while self.peek().is_ascii_digit() { self.advance(); }
RECURSIVE digits_loop(_)
digits_loop(sc) ==
    IF peek(sc) \in ASCII_DIGIT THEN digits_loop(Scanner_advance(sc)) ELSE sc

\* a fractional part that takes the '.' whatever follows it
fraction_greedy(sc) ==
    IF peek(sc) = "." THEN digits_loop(Scanner_advance(sc)) ELSE sc

\* the fractional part: a '.' is consumed only when a digit follows it
fraction(sc) ==
    IF peek(sc) = "." /\ peek_next(sc) \in ASCII_DIGIT
    THEN digits_loop(Scanner_advance(sc))
    ELSE sc

Scanner_number(sc) == Made(fraction(digits_loop(sc)), "Number")

\* the loop of Scanner::string
RECURSIVE string_loop(_)
string_loop(sc) ==
    IF peek(sc) # "\"" /\ ~is_at_end(sc)
    THEN string_loop(Scanner_advance(IF peek(sc) = "\n" THEN [sc EXCEPT !.line = @ + 1] ELSE sc))
    ELSE sc

\* Scanner::string, after its loop
string_end(sc) ==
    IF is_at_end(sc)
    THEN [tok |-> error_token(sc, "Unterminated string."), sc |-> sc]
    ELSE Made(Scanner_advance(sc), "String")

Scanner_string(sc) == string_end(string_loop(sc))

\* one of the four tokens that take a following '=': m is what match_ch('=') gave
one_or_two(m, with_equal, without) == Made(m.sc, IF m.ok THEN with_equal ELSE without)

SingleCharKinds ==
    [kind \in {"(", ")", "{", "}", ";", ",", ".", "-", "+", "/", "*"} |->
        CASE kind = "(" -> "LeftParen"
          [] kind = ")" -> "RightParen"
          [] kind = "{" -> "LeftBrace"
          [] kind = "}" -> "RightBrace"
          [] kind = ";" -> "Semicolon"
          [] kind = "," -> "Comma"
          [] kind = "." -> "Dot"
          [] kind = "-" -> "Minus"
          [] kind = "+" -> "Plus"
          [] kind = "/" -> "Slash"
          [] kind = "*" -> "Star"]

\* scan_token from `let c = self.advance();` on: c is the char, sc the scanner after it
scan_char(c, sc) ==
    IF c \in ASCII_ALPHABETIC \/ c = "_" THEN Scanner_identifier(sc)
    ELSE IF c \in ASCII_DIGIT THEN Scanner_number(sc)
    ELSE IF c \in DOMAIN SingleCharKinds THEN Made(sc, SingleCharKinds[c])
    ELSE IF c = "!" THEN one_or_two(match_ch(sc, "="), "BangEqual", "Bang")
    ELSE IF c = "=" THEN one_or_two(match_ch(sc, "="), "EqualEqual", "Equal")
    ELSE IF c = "<" THEN one_or_two(match_ch(sc, "="), "LessEqual", "Less")
    ELSE IF c = ">" THEN one_or_two(match_ch(sc, "="), "GreaterEqual", "Greater")
    ELSE IF c = "\"" THEN Scanner_string(sc)
    ELSE [tok |-> error_token(sc, "Unexpected character."), sc |-> sc]

\* a scan_token that looks at the character and does not consume it
scan_at_peeking(sc) ==
    IF is_at_end(sc) THEN Made(sc, "EndOfFile")
    ELSE scan_char(ByteAt(sc, sc.current), sc)

\* the offsets of the source peek, peek_next and match_ch read
peek_reads(sc) == IF is_at_end(sc) THEN {} ELSE {sc.current}

peek_next_reads(sc) == IF sc.current + 1 >= Len(sc.source) THEN {} ELSE {sc.current + 1}

match_ch_reads(sc) == IF is_at_end(sc) THEN {} ELSE {sc.current}

\* scan_token from `if self.is_at_end()` on
\* a scan_at that counts a line at the end of the source
scan_at_counting(sc) ==
    IF is_at_end(sc) THEN Made([sc EXCEPT !.line = @ + 1], "EndOfFile")
    ELSE scan_char(ByteAt(sc, sc.current), Scanner_advance(sc))

scan_at(sc) ==
    IF is_at_end(sc) THEN Made(sc, "EndOfFile")
    ELSE scan_char(ByteAt(sc, sc.current), Scanner_advance(sc))

\* a scan_token that leaves start where the last token began
mark_start_none(sc) == sc

\* self.start = self.current
mark_start(sc) == [sc EXCEPT !.start = sc.current]

\* Scanner::scan_token: the token returned and the scanner after the call
scan_token(sc) == scan_at(mark_start(skip_whitespace(sc)))

(***************************************************************************)
(* compiler.rs: precedences, the parser's error reporting, token intake    *)
(***************************************************************************)
PREC_NONE == 0
PREC_ASSIGNMENT == 1
PREC_OR == 2
PREC_AND == 3
PREC_EQUALITY == 4
PREC_COMPARISON == 5
PREC_TERM == 6
PREC_FACTOR == 7
PREC_UNARY == 8
PREC_CALL == 9
PREC_PRIMARY == 10

\* a plus_one that gives the same level: the right operand would take the
\* operators of the operator's own level
plus_one_same(p) == p

\* Precedence::plus_one: nothing is higher than Primary
plus_one(p) == IF p = PREC_PRIMARY THEN PREC_PRIMARY ELSE p + 1

\* a table of precedences in which '=' is an infix operator
get_rule_precedence_equal(kind) ==
    CASE kind \in {"Minus", "Plus"} -> PREC_TERM
      [] kind \in {"Slash", "Star"} -> PREC_FACTOR
      [] kind \in {"BangEqual", "EqualEqual"} -> PREC_EQUALITY
      [] kind \in {"Greater", "GreaterEqual", "Less", "LessEqual"} -> PREC_COMPARISON
      [] kind = "Equal" -> PREC_ASSIGNMENT
      [] OTHER -> PREC_NONE

\* enum TokenKind
TokenKind ==
    {"LeftParen", "RightParen", "LeftBrace", "RightBrace", "Comma", "Dot", "Minus", "Plus",
     "Semicolon", "Slash", "Star", "Bang", "BangEqual", "Equal", "EqualEqual", "Greater",
     "GreaterEqual", "Less", "LessEqual", "Identifier", "String", "Number", "And", "Class",
     "Else", "False", "For", "Fun", "If", "Nil", "Or", "Print", "Return", "Super", "This",
     "True", "Var", "While", "Error", "EndOfFile"}

\* Compiler::get_rule_precedence

get_rule_precedence(kind) ==
    CASE kind \in {"Minus", "Plus"} -> PREC_TERM
      [] kind \in {"Slash", "Star"} -> PREC_FACTOR
      [] kind \in {"BangEqual", "EqualEqual"} -> PREC_EQUALITY
      [] kind \in {"Greater", "GreaterEqual", "Less", "LessEqual"} -> PREC_COMPARISON
      [] OTHER -> PREC_NONE

\* a message, in the form in which an Error token carries one as its lexeme
Msg(text) == <<text>>

NothingReadYet == [kind |-> "Error", lexeme |-> Msg("Nothing is read yet."), line |-> 0]

\* Compiler::new
Compiler_new(source) ==
    [scanner |-> Scanner_new(source),
     parser |-> [previous |-> NothingReadYet, current |-> NothingReadYet,
                 had_error |-> FALSE, panic_mode |-> FALSE]]

\* the line error_at prints: "[line L] Error" + context + ": " + message
Diagnostic(token, message) ==
    [line |-> token.line,
     context |-> CASE token.kind = "EndOfFile" -> "at end"
                   [] token.kind = "Error" -> "none"
                   [] OTHER -> "at lexeme",
     lexeme |-> IF token.kind \in {"EndOfFile", "Error"} THEN <<>> ELSE token.lexeme,
     message |-> message]

\* an error_at that prints and does not set had_error
error_at_unlatched(c, token, message) ==
    IF c.parser.panic_mode
    THEN [c |-> c, err |-> <<>>]
    ELSE [c |-> [c EXCEPT !.parser.panic_mode = TRUE],
          err |-> <<Diagnostic(token, message)>>]

\* an error_at without the panic-mode test: every error is printed
error_at_always(c, token, message) ==
    [c |-> [c EXCEPT !.parser.panic_mode = TRUE, !.parser.had_error = TRUE],
     err |-> <<Diagnostic(token, message)>>]

\* Compiler::error_at: the compiler after it and the lines it wrote to stderr
error_at(c, token, message) ==
    IF c.parser.panic_mode
    THEN [c |-> c, err |-> <<>>]
    ELSE [c |-> [c EXCEPT !.parser.panic_mode = TRUE, !.parser.had_error = TRUE],
          err |-> <<Diagnostic(token, message)>>]

error_at_current(c, message) == error_at(c, c.parser.current, message)

\* a Compiler::error that reports at the previous token whatever panic_mode is
Compiler_error_always(c, message) == error_at_always(c, c.parser.previous, message)

Compiler_error(c, message) == error_at(c, c.parser.previous, message)

\* an advance() that leaves previous as it is
advance_previous_keep(c) == c

\* Compiler::advance, its first statement: self.parser.previous = self.parser.current
advance_previous(c) == [c EXCEPT !.parser.previous = c.parser.current]

\* Compiler::advance, the first statement of its loop:
\* self.parser.current = self.scanner.scan_token(), t being what scan_token gave
advance_current(c, t) == [c EXCEPT !.scanner = t.sc, !.parser.current = t.tok]

(***************************************************************************)
(* compiler.rs: emission                                                   *)
(***************************************************************************)
U8_MAX == 255

\* an emit_byte that records the line of the token the parser looks at
emit_byte_current(c, chunk, byte) == Chunk_write(chunk, byte, c.parser.current.line)

emit_byte(c, chunk, byte) == Chunk_write(chunk, byte, c.parser.previous.line)

\* an emit_bytes that records the line of the token the parser looks at
emit_bytes_current(c, chunk, bytes) ==
    [chunk EXCEPT !.code = @ \o bytes,
                  !.lines = @ \o [k \in 1..Len(bytes) |-> c.parser.current.line]]

RECURSIVE emit_bytes(_, _, _)
emit_bytes(c, chunk, bytes) ==
    IF bytes = <<>> THEN chunk
    ELSE emit_bytes(c, emit_byte(c, chunk, Head(bytes)), Tail(bytes))

\* an emit_return that writes nothing
emit_return_none(c, chunk) == chunk

emit_return(c, chunk) == emit_byte(c, chunk, OP_RETURN)

\* a make_constant that is off by one: it returns the length of the pool after the add
make_constant_next(chunk, value) ==
    [chunk |-> [chunk EXCEPT !.constants = ValueArray_add_values(@, value)],
     index |-> ValueArray_add_index(chunk.constants, value) + 1,
     ok |-> ValueArray_add_index(chunk.constants, value) + 1 <= U8_MAX]

\* a make_constant that casts the index to u8: it wraps around
make_constant_wrapped(chunk, value) ==
    [chunk |-> [chunk EXCEPT !.constants = ValueArray_add_values(@, value)],
     index |-> ValueArray_add_index(chunk.constants, value) % (U8_MAX + 1),
     ok |-> TRUE]

\* make_constant: ok is FALSE when the index does not fit a u8 (the ICE panic)
make_constant(chunk, value) ==
    LET constant == ValueArray_add_index(chunk.constants, value) IN
    [chunk |-> [chunk EXCEPT !.constants = ValueArray_add_values(@, value)],
     index |-> constant,
     ok |-> constant <= U8_MAX]

emit_constant(c, chunk, value) ==
    LET m == make_constant(chunk, value) IN
    IF m.ok
    THEN [chunk |-> emit_bytes(c, m.chunk, <<OP_CONSTANT, m.index>>), ok |-> TRUE]
    ELSE [chunk |-> m.chunk, ok |-> FALSE]

DigitValue(ch) ==
    CASE ch = "0" -> 0 [] ch = "1" -> 1 [] ch = "2" -> 2 [] ch = "3" -> 3 [] ch = "4" -> 4
      [] ch = "5" -> 5 [] ch = "6" -> 6 [] ch = "7" -> 7 [] ch = "8" -> 8 [] ch = "9" -> 9

\* the digits of a lexeme read as one decimal integer, the '.' left out
RECURSIVE DecimalDigits(_, _)
DecimalDigits(lexeme, acc) ==
    IF lexeme = <<>> THEN acc
    ELSE IF Head(lexeme) = "." THEN DecimalDigits(Tail(lexeme), acc)
    ELSE DecimalDigits(Tail(lexeme), 10 * acc + DigitValue(Head(lexeme)))

RECURSIVE Pow10(_)
Pow10(k) == IF k = 0 THEN 1 ELSE 10 * Pow10(k - 1)

\* the number of digits after the '.', 0 when there is none
FractionDigits(lexeme) ==
    IF \E i \in 1..Len(lexeme) : lexeme[i] = "."
    THEN Len(lexeme) - (CHOOSE i \in 1..Len(lexeme) : lexeme[i] = ".")
    ELSE 0

\* lexeme.parse::<f64>() for the lexeme of a Number token
parse_f64(lexeme) == Fin(1, DecimalDigits(lexeme, 0), Pow10(FractionDigits(lexeme)))

\* Compiler::number
Compiler_number(c, chunk) == emit_constant(c, chunk, Number(parse_f64(c.parser.previous.lexeme)))

\* Compiler::literal: ok is FALSE in the ICE branch
literal(c, chunk) ==
    LET operator_type == c.parser.previous.kind IN
    CASE operator_type = "False" -> [chunk |-> emit_byte(c, chunk, OP_FALSE), ok |-> TRUE]
      [] operator_type = "True" -> [chunk |-> emit_byte(c, chunk, OP_TRUE), ok |-> TRUE]
      [] operator_type = "Nil" -> [chunk |-> emit_byte(c, chunk, OP_NIL), ok |-> TRUE]
      [] OTHER -> [chunk |-> chunk, ok |-> FALSE]

\* the bytes Compiler::binary emits after the right operand; <<>> in the ICE branch
\* the bytes of binary() with the opcodes of <= and >= exchanged
binary_bytes_exchanged(operator_type) ==
    CASE operator_type = "Plus" -> <<OP_ADD>>
      [] operator_type = "Minus" -> <<OP_SUBTRACT>>
      [] operator_type = "Star" -> <<OP_MULTIPLY>>
      [] operator_type = "Slash" -> <<OP_DIVIDE>>
      [] operator_type = "BangEqual" -> <<OP_EQUAL, OP_NOT>>
      [] operator_type = "EqualEqual" -> <<OP_EQUAL>>
      [] operator_type = "Greater" -> <<OP_GREATER>>
      [] operator_type = "GreaterEqual" -> <<OP_GREATER, OP_NOT>>
      [] operator_type = "Less" -> <<OP_LESS>>
      [] operator_type = "LessEqual" -> <<OP_LESS, OP_NOT>>
      [] OTHER -> <<>>

binary_bytes(operator_type) ==
    CASE operator_type = "Plus" -> <<OP_ADD>>
      [] operator_type = "Minus" -> <<OP_SUBTRACT>>
      [] operator_type = "Star" -> <<OP_MULTIPLY>>
      [] operator_type = "Slash" -> <<OP_DIVIDE>>
      [] operator_type = "BangEqual" -> <<OP_EQUAL, OP_NOT>>
      [] operator_type = "EqualEqual" -> <<OP_EQUAL>>
      [] operator_type = "Greater" -> <<OP_GREATER>>
      [] operator_type = "GreaterEqual" -> <<OP_LESS, OP_NOT>>
      [] operator_type = "Less" -> <<OP_LESS>>
      [] operator_type = "LessEqual" -> <<OP_GREATER, OP_NOT>>
      [] OTHER -> <<>>

\* the byte Compiler::unary emits after the operand; <<>> in the ICE branch
unary_bytes(operator_type) ==
    CASE operator_type = "Minus" -> <<OP_NEGATE>>
      [] operator_type = "Bang" -> <<OP_NOT>>
      [] OTHER -> <<>>

\* the precedence Compiler::binary parses its right operand with
binary_operand_precedence(operator_type) == plus_one(get_rule_precedence(operator_type))

\* the rule do_rule_prefix picks for a token kind
prefix_rule(kind) ==
    CASE kind = "LeftParen" -> "grouping"
      [] kind \in {"Minus", "Bang"} -> "unary"
      [] kind = "Number" -> "number"
      [] kind \in {"False", "True", "Nil"} -> "literal"
      [] OTHER -> "error"

\* the rule do_rule_infix picks for a token kind
infix_rule(kind) ==
    IF kind \in {"Minus", "Plus", "Slash", "Star", "BangEqual", "EqualEqual",
                 "Greater", "GreaterEqual", "Less", "LessEqual"}
    THEN "binary"
    ELSE "error"

(***************************************************************************)
(* vm.rs                                                                   *)
(***************************************************************************)
VM_new == [chunk |-> Chunk_new, ip |-> 0, stack |-> <<>>]

\* what one turn of the dispatch loop of VM::run comes to.  status:
\* "continue" (next turn), "return" (Ok(Some(value)), value printed),
\* "runtime_error" (Err(RuntimeError)), "panic" (the process aborts).
Step(status, vm, value, out, err) ==
    [status |-> status, vm |-> vm, value |-> value, out |-> out, err |-> err]

Continue(vm) == Step("continue", vm, <<>>, <<>>, <<>>)

Panic(vm, message) ==
    Step("panic", vm, <<>>, <<>>,
         <<[line |-> 0, context |-> "panic", lexeme |-> <<>>, message |-> Msg(message)]>>)

push_stack(vm, value) == [vm EXCEPT !.stack = Append(@, value)]

\* the stack after pop_stack (called on a non-empty stack)
pop_stack(vm) == [vm EXCEPT !.stack = SubSeq(@, 1, Len(@) - 1)]

Top(vm) == vm.stack[Len(vm.stack)]

reset_stack(vm) == [vm EXCEPT !.stack = <<>>]

\* read_byte: the byte at ip, and ip moved past it
read_byte(vm) == [byte |-> Chunk_get_code(vm.chunk, vm.ip), vm |-> [vm EXCEPT !.ip = @ + 1]]

\* a runtime_error that leaves the stack as it is
runtime_error_keep(vm, message) ==
    Step("runtime_error", vm, <<>>, <<>>,
         <<[line |-> Chunk_get_line(vm.chunk, vm.ip - 1), context |-> "in script",
            lexeme |-> <<>>, message |-> Msg(message)]>>)

\* a runtime_error that takes the line of the byte ip points at
runtime_error_next_line(vm, message) ==
    Step("runtime_error", reset_stack(vm), <<>>, <<>>,
         <<[line |-> Chunk_get_line(vm.chunk, vm.ip), context |-> "in script",
            lexeme |-> <<>>, message |-> Msg(message)]>>)

\* VM::runtime_error: the message and "[line L] in script" on stderr, the stack cleared
runtime_error(vm, message) ==
    Step("runtime_error", reset_stack(vm), <<>>, <<>>,
         <<[line |-> Chunk_get_line(vm.chunk, vm.ip - 1), context |-> "in script",
            lexeme |-> <<>>, message |-> Msg(message)]>>)

BinaryOpCodes == {OP_ADD, OP_SUBTRACT, OP_MULTIPLY, OP_DIVIDE, OP_GREATER, OP_LESS}

\* a binary_result with the operands in the order they are popped: b op a
binary_result_swapped(instruction, a, b) ==
    CASE instruction = OP_ADD -> Number(f64_add(b, a))
      [] instruction = OP_SUBTRACT -> Number(f64_sub(b, a))
      [] instruction = OP_MULTIPLY -> Number(f64_mul(b, a))
      [] instruction = OP_DIVIDE -> Number(f64_div(b, a))
      [] instruction = OP_GREATER -> Bool(f64_gt(b, a))
      [] instruction = OP_LESS -> Bool(f64_lt(b, a))

\* the value the arithmetic and comparison opcodes push for Number operands a and b
binary_result(instruction, a, b) ==
    CASE instruction = OP_ADD -> Number(f64_add(a, b))
      [] instruction = OP_SUBTRACT -> Number(f64_sub(a, b))
      [] instruction = OP_MULTIPLY -> Number(f64_mul(a, b))
      [] instruction = OP_DIVIDE -> Number(f64_div(a, b))
      [] instruction = OP_GREATER -> Bool(f64_gt(a, b))
      [] instruction = OP_LESS -> Bool(f64_lt(a, b))

\* a Return that prints the top of the stack and leaves it there
op_return_keep(vm) ==
    IF vm.stack = <<>> THEN Panic(vm, "Stack exhausted")
    ELSE Step("return", vm, <<Top(vm)>>, <<Top(vm)>>, <<>>)

op_return(vm) ==
    IF vm.stack = <<>> THEN Panic(vm, "Stack exhausted")
    ELSE Step("return", pop_stack(vm), <<Top(vm)>>, <<Top(vm)>>, <<>>)

\* a Constant that reads its operand and leaves ip on it
op_constant_no_advance(vm) ==
    IF vm.ip >= Len(vm.chunk.code) THEN Panic(vm, "index out of bounds")
    ELSE IF read_byte(vm).byte >= Len(vm.chunk.constants) THEN Panic(vm, "index out of bounds")
    ELSE Continue(push_stack(vm, ValueArray_get(vm.chunk.constants, read_byte(vm).byte)))

op_constant(vm) ==
    IF vm.ip >= Len(vm.chunk.code) THEN Panic(vm, "index out of bounds")
    ELSE LET r == read_byte(vm) IN
         IF r.byte >= Len(r.vm.chunk.constants) THEN Panic(r.vm, "index out of bounds")
         ELSE Continue(push_stack(r.vm, ValueArray_get(r.vm.chunk.constants, r.byte)))

\* a Negate that lets a value that is no Number pass
op_negate_lenient(vm) ==
    IF vm.stack = <<>> THEN Panic(vm, "Stack exhausted")
    ELSE IF Top(vm).tag = "Number"
         THEN Continue([vm EXCEPT !.stack[Len(vm.stack)] = Number(f64_neg(Top(vm).num))])
         ELSE Continue(vm)

op_negate(vm) ==
    IF vm.stack = <<>> THEN Panic(vm, "Stack exhausted")
    ELSE IF Top(vm).tag = "Number"
         THEN Continue([vm EXCEPT !.stack[Len(vm.stack)] = Number(f64_neg(Top(vm).num))])
         ELSE runtime_error(vm, "Operand must be a number.")

op_binary(vm, instruction) ==
    IF Len(vm.stack) < 2 THEN Panic(vm, "Stack exhausted")
    ELSE LET b == Top(vm)
             a == Top(pop_stack(vm))
             vm2 == pop_stack(pop_stack(vm))
         IN  IF a.tag = "Number" /\ b.tag = "Number"
             THEN Continue(push_stack(vm2, binary_result(instruction, a.num, b.num)))
             ELSE runtime_error(vm2, "Operands must be numbers.")

op_not(vm) ==
    IF vm.stack = <<>> THEN Panic(vm, "Stack exhausted")
    ELSE Continue([vm EXCEPT !.stack[Len(vm.stack)] = Bool(is_falsey(Top(vm)))])

op_equal(vm) ==
    IF Len(vm.stack) < 2 THEN Panic(vm, "Stack exhausted")
    ELSE LET b == Top(vm)
             a == Top(pop_stack(vm))
         IN  Continue(push_stack(pop_stack(pop_stack(vm)), Bool(value_eq(a, b))))

\* one turn of the loop of VM::run
run_step(vm0) ==
    IF vm0.ip >= Len(vm0.chunk.code) THEN Panic(vm0, "index out of bounds")
    ELSE LET r == read_byte(vm0)
             instruction == OpCode_try_from(r.byte)
             vm == r.vm
         IN  IF ~instruction.ok THEN Panic(vm, "Invalid opcode")
             ELSE CASE instruction.op = OP_RETURN -> op_return(vm)
                    [] instruction.op = OP_CONSTANT -> op_constant(vm)
                    [] instruction.op = OP_NEGATE -> op_negate(vm)
                    [] instruction.op \in BinaryOpCodes -> op_binary(vm, instruction.op)
                    [] instruction.op = OP_NIL -> Continue(push_stack(vm, Nil))
                    [] instruction.op = OP_TRUE -> Continue(push_stack(vm, Bool(TRUE)))
                    [] instruction.op = OP_FALSE -> Continue(push_stack(vm, Bool(FALSE)))
                    [] instruction.op = OP_NOT -> op_not(vm)
                    [] instruction.op = OP_EQUAL -> op_equal(vm)

\* an interpret that takes the chunk and leaves ip where the last run ended
install_chunk_only(vm, chunk) == [vm EXCEPT !.chunk = chunk]

\* VM::interpret, once compile() has returned Ok(chunk)
install(vm, chunk) == [vm EXCEPT !.chunk = chunk, !.ip = 0]

(***************************************************************************)
(* The inputs: sources built from lexical pieces, and the sources of the   *)
(* repository's own tests.                                                 *)
(***************************************************************************)
MaxPieces == 3
MaxTerms == 5
MaxLines == 2

\* pieces that exercise every kind of token the parser has a rule for, an
\* unexpected character, a string quote, a newline and a comment start
Pieces ==
    {<<"0">>, <<"1">>, <<"t", "r", "u", "e">>, <<"n", "i", "l">>,
     <<"-">>, <<"!">>, <<"/">>, <<"<">>, <<"=">>, <<"(">>, <<")">>,
     <<"@">>, <<"\"">>, <<"\n">>}

\* pieces of operator expressions, one operator per binding level
TermPieces == {<<"1">>, <<"2">>, <<"-">>, <<"*">>, <<"<">>}

RECURSIVE PieceSeqs(_, _)
PieceSeqs(pieces, n) ==
    IF n = 0 THEN {<<>>}
    ELSE {s \o p : s \in PieceSeqs(pieces, n - 1), p \in pieces \cup {<<>>}}

\* the sources of the repository's tests and of the examples of its
\* specification, one item per character
TestSources ==
    {<<"1", " ", "+">>,
     <<"-", "3">>,
     <<"!", "f", "a", "l", "s", "e">>,
     <<"2", "8", " ", "/", " ", "4">>,
     <<"3", " ", ">", "=", " ", "4">>,
     <<"4", " ", "<", "=", " ", "3">>,
     <<"3", " ", "!", "=", " ", "2">>,
     <<"t", "r", "u", "e", " ", "=", "=", " ", "1">>,
     <<"f", "a", "l", "s", "e", " ", "!", "=", " ", "n", "i", "l">>,
     <<"(", "0", ".", "0", " ", "/", " ", "0", ".", "0", ")", " ", "<", "=", " ", "1">>,
     <<"(", "-", "1", " ", "+", " ", "2", ")", " ", "*", " ", "3", " ", "-", " ", "-", "4">>,
     <<"!", "(", "5", " ", "-", " ", "4", " ", ">", " ", "3", " ", "*", " ", "2", " ",
       "=", "=", " ", "!", "n", "i", "l", ")">>,
     <<"5", "\n", "*", "\n", "6">>,
     <<"1", " ", "-", " ", "4", " ", "*", " ", "6">>,
     <<"-", "f", "a", "l", "s", "e">>,
     <<"t", "r", "u", "e", " ", "+", " ", "f", "a", "l", "s", "e">>,
     <<"1", " ", "*", " ", "4", " ", "-", " ", "6">>,
     <<"-", "1", " ", "+", " ", "2">>,
     <<"1", " ", "+", " ", "1">>,
     <<"1", " ", "+", " ", "t", "r", "u", "e">>,
     <<"t", "r", "u", "e", " ", "+", " ", "1">>,
     <<"n", "i", "l", " ", "<", "=", " ", "1">>,
     <<"1", " ", "/", " ", "0">>}

\* the sum of n number literals: 1+1+...+1
SumOfOnes(n) == [i \in 1..(2 * n - 1) |-> IF i % 2 = 1 THEN "1" ELSE "+"]

\* sources with as many number literals as a u8 has values, with one less and
\* with one more
PoolSources == {SumOfOnes(U8_MAX + k) : k \in 0..2}

\* operands of every variant, with the numbers 0/0 (NaN), 1/0 (infinity) and -0
Operands ==
    {<<"n", "i", "l">>, <<"t", "r", "u", "e">>, <<"f", "a", "l", "s", "e">>,
     <<"0">>, <<"-", "0">>, <<"1">>, <<"0", "/", "0">>, <<"1", "/", "0">>}

\* the comparison and equality operators
Comparisons == {<<"<">>, <<">">>, <<"<", "=">>, <<">", "=">>, <<"=", "=">>, <<"!", "=">>}

\* one comparison or equality of two operands
ComparisonSources == {a \o op \o b : a \in Operands, op \in Comparisons, b \in Operands}

\* pieces of the lexical grammar: a string quote, line and blank, the slash of
\* a comment, a digit and the dot, a letter, the '=' and '!' of the two-char
\* tokens, and a character no token begins with
ScanPieces ==
    {<<"\"">>, <<"\n">>, <<" ">>, <<"/">>, <<"1">>, <<".">>, <<"a">>, <<"=">>, <<"!">>,
     <<"@">>}

\* the source of the scanner's test of line numbers, and sources with a
\* string over several lines, a comment, and a string that holds "//"
ScanTestSources ==
    {<<"v", "a", "r", "\n", "a", "n", "d", " ", "o", "r", "\n", "t", "h", "i", "s", "\n",
       ";", "\n">>,
     <<"\"", "a", "\n", "b", "\"", " ", "1">>,
     <<"1", " ", "/", "/", " ", "c", "\n", "\"", "x", " ", "y", "\"">>,
     <<"\"", "/", "/", "\"", "\r", "1", ".", "5", "/", "/", "\"", "\n", "@">>,
     <<"1", "\n", "\"", "\n", "\n">>,
     <<"1", "/", "/", "\n", "\"", "\n", "\"", "\n", "2">>,
     <<"1", "2", ".", "3", "4", ".", "5">>,
     <<"1", ".", "x">>,
     <<"_", "a", "1", "\t", "<", "=", "\r", "\n", "t", "r", "u", "e">>}

ScanSources == PieceSeqs(ScanPieces, MaxPieces) \cup ScanTestSources

\* the 16 keywords and their token kinds
Keywords ==
    {[text |-> <<"a", "n", "d">>, kind |-> "And"],
     [text |-> <<"c", "l", "a", "s", "s">>, kind |-> "Class"],
     [text |-> <<"e", "l", "s", "e">>, kind |-> "Else"],
     [text |-> <<"f", "a", "l", "s", "e">>, kind |-> "False"],
     [text |-> <<"f", "o", "r">>, kind |-> "For"],
     [text |-> <<"f", "u", "n">>, kind |-> "Fun"],
     [text |-> <<"i", "f">>, kind |-> "If"],
     [text |-> <<"n", "i", "l">>, kind |-> "Nil"],
     [text |-> <<"o", "r">>, kind |-> "Or"],
     [text |-> <<"p", "r", "i", "n", "t">>, kind |-> "Print"],
     [text |-> <<"r", "e", "t", "u", "r", "n">>, kind |-> "Return"],
     [text |-> <<"s", "u", "p", "e", "r">>, kind |-> "Super"],
     [text |-> <<"t", "h", "i", "s">>, kind |-> "This"],
     [text |-> <<"t", "r", "u", "e">>, kind |-> "True"],
     [text |-> <<"v", "a", "r">>, kind |-> "Var"],
     [text |-> <<"w", "h", "i", "l", "e">>, kind |-> "While"]}

\* the keywords, each of their beginnings, each keyword with a character
\* before or after it, each keyword cut in two by a blank, the source of
\* the scanner's test of the keywords, and other identifiers
WordSources ==
    UNION {{SubSeq(k.text, 1, n) : n \in 1..Len(k.text)} \cup
           {k.text \o <<c>> : c \in {"x", "l", "e", "_", "1"}} \cup
           {<<c>> \o k.text : c \in {"x", "_", " "}} \cup
           {SubSeq(k.text, 1, n) \o <<" ">> \o SubSeq(k.text, n + 1, Len(k.text)) :
               n \in 1..(Len(k.text) - 1)} : k \in Keywords}
    \cup
    {<<"a", "n", "d", " ", "c", "l", "a", "s", "s", " ", "e", "l", "s", "e", " ", "f",
       "a", "l", "s", "e", " ", "f", "o", "r", " ", "f", "u", "n", " ", "i", "f", " ",
       "n", "i", "l", " ", "o", "r", " ", "p", "r", "i", "n", "t", " ", "r", "e", "t",
       "u", "r", "n", " ", "s", "u", "p", "e", "r", " ", "t", "h", "i", "s", " ", "t",
       "r", "u", "e", " ", "v", "a", "r", " ", "w", "h", "i", "l", "e">>,
     <<"t", "r", "u", "e", " ", "t", "r", "u", " ", "t", "r", "u", "e", "x", " ", "t">>,
     <<"x">>, <<"f", "o", "o">>, <<"_", "i", "f">>, <<"T", "r", "u", "e">>,
     <<"i", "f", "(", "o", "r", ")">>}

\* calls of scan_token made after the first EndOfFile
MaxEndCalls == 2

FileSources ==
    PieceSeqs(Pieces, MaxPieces) \cup PieceSeqs(TermPieces, MaxTerms) \cup TestSources
        \cup ComparisonSources

\* pieces of the grammar of expressions: an operand, a prefix operator, an
\* operator that is prefix and infix, the halves of "!=" and "==", the
\* parentheses, and a character the scanner reports
CompilePieces == {<<"1">>, <<"!">>, <<"-">>, <<"=">>, <<"(">>, <<")">>, <<"@">>}

MaxCompilePieces == 3

CompileSources == PieceSeqs(CompilePieces, MaxCompilePieces) \cup TestSources

\* the lines typed at the prompt (read_line leaves the newline at the end)
ReplLines ==
    {<<"1", "+", "2", "\n">>, <<"!", "n", "i", "l", "\n">>, <<"1", "+", "\n">>,
     <<"@", "\n">>, <<"-", "n", "i", "l", "\n">>, <<"1", "<", "t", "r", "u", "e", "\n">>,
     <<"\n">>}

(***************************************************************************)
(* The state                                                               *)
(***************************************************************************)
VARIABLES
    phase,      \* where the process is: "start", "repl", "file", "compile", "run",
                \* "returned" (interpret has returned), "exit", "panic"; "scan" when
                \* the scanner is driven on its own
    args_len,   \* env::args().len()
    nlines,     \* lines read by repl so far
    exit_code,  \* process exit code, -1 while running
    compiler,   \* the Compiler of the current interpret call: scanner and parser
    chunk,      \* the local `chunk` of Compiler::compile
    frames,     \* the call stack below compile(): one record per active call
    vm,         \* the VM: chunk, ip, stack
    result,     \* what the last interpret call returned
    stdout,     \* values printed by the current interpret call
    stderr,     \* diagnostics written by the current interpret call
    tokens,     \* history: the tokens scan_token returned in the current call
    executed,   \* history: the offsets of the opcodes dispatched in the current call
    entry_vm    \* history: the VM as it was when the current interpret call began

vars ==
    <<phase, args_len, nlines, exit_code, compiler, chunk, frames, vm, result,
      stdout, stderr, tokens, executed, entry_vm>>

Frame(fn, pc, prec, op) == [fn |-> fn, pc |-> pc, prec |-> prec, op |-> op]

NoResult == [kind |-> "None", value |-> <<>>]

Init ==
    /\ phase = "start"
    /\ args_len \in 1..3
    /\ nlines = 0
    /\ exit_code = -1
    /\ compiler = Compiler_new(<<>>)
    /\ chunk = Chunk_new
    /\ frames = <<>>
    /\ vm = VM_new
    /\ result = NoResult
    /\ stdout = <<>>
    /\ stderr = <<>>
    /\ tokens = <<>>
    /\ executed = <<>>
    /\ entry_vm = VM_new

(***************************************************************************)
(* main.rs                                                                 *)
(***************************************************************************)
\* VM::interpret is entered: Compiler::new(source), and compile() starts
InterpretBegin(source) ==
    /\ compiler' = Compiler_new(source)
    /\ chunk' = Chunk_new
    /\ frames' = <<Frame("compile", "advance", PREC_NONE, "")>>
    /\ phase' = "compile"
    /\ result' = NoResult
    /\ stdout' = <<>>
    /\ stderr' = <<>>
    /\ tokens' = <<>>
    /\ executed' = <<>>
    /\ entry_vm' = vm
    /\ UNCHANGED vm

\* main: one argument starts the REPL, two run a file, more is a usage error
Main ==
    /\ phase = "start"
    /\ IF args_len = 1 THEN phase' = "repl" /\ exit_code' = exit_code
       ELSE IF args_len = 2 THEN phase' = "file" /\ exit_code' = exit_code
       ELSE phase' = "exit" /\ exit_code' = 64
    /\ UNCHANGED <<args_len, nlines, compiler, chunk, frames, vm, result,
                   stdout, stderr, tokens, executed, entry_vm>>

ReplReadLine ==
    /\ phase = "repl"
    /\ nlines < MaxLines
    /\ \E buffer \in ReplLines : InterpretBegin(buffer)
    /\ nlines' = nlines + 1
    /\ UNCHANGED <<args_len, exit_code>>

\* read_line gave 0 bytes or failed: the loop ends and main returns
ReplEnd ==
    /\ phase = "repl"
    /\ phase' = "exit"
    /\ exit_code' = 0
    /\ UNCHANGED <<args_len, nlines, compiler, chunk, frames, vm, result,
                   stdout, stderr, tokens, executed, entry_vm>>

\* `let _ = vm.interpret(buffer);` and the next turn of the loop
ReplContinue ==
    /\ phase = "returned"
    /\ args_len = 1
    /\ phase' = "repl"
    /\ UNCHANGED <<args_len, nlines, exit_code, compiler, chunk, frames, vm, result,
                   stdout, stderr, tokens, executed, entry_vm>>

RunFileRead ==
    /\ phase = "file"
    /\ \E source \in FileSources : InterpretBegin(source)
    /\ UNCHANGED <<args_len, nlines, exit_code>>

RunFileReadFail ==
    /\ phase = "file"
    /\ phase' = "exit"
    /\ exit_code' = 74
    /\ UNCHANGED <<args_len, nlines, compiler, chunk, frames, vm, result,
                   stdout, stderr, tokens, executed, entry_vm>>

\* a run_file with the exit codes of the two errors exchanged
run_file_exit_code_exchanged(res) ==
    CASE res.kind = "CompileError" -> 70
      [] res.kind = "RuntimeError" -> 65
      [] OTHER -> 0

\* the exit code run_file ends the process with, given what interpret returned
run_file_exit_code(res) ==
    CASE res.kind = "CompileError" -> 65
      [] res.kind = "RuntimeError" -> 70
      [] OTHER -> 0

RunFileExit ==
    /\ phase = "returned"
    /\ args_len = 2
    /\ phase' = "exit"
    /\ exit_code' = run_file_exit_code(result)
    /\ UNCHANGED <<args_len, nlines, compiler, chunk, frames, vm, result,
                   stdout, stderr, tokens, executed, entry_vm>>

(***************************************************************************)
(* compiler.rs: compile() and the calls below it, one statement a step     *)
(***************************************************************************)
TopFrame == frames[Len(frames)]

\* the frames with the top one at another pc
Goto(pc) == [frames EXCEPT ![Len(frames)].pc = pc]

\* the frames once the top call has returned
Return == SubSeq(frames, 1, Len(frames) - 1)

DriverVars == <<args_len, nlines, exit_code>>

\* the frames once the top call has gone on to pc and has called advance()
CallAdvance(pc) == Append(Goto(pc), Frame("advance", "scan", PREC_NONE, ""))

\* self.advance() is called at the start of compile() and of parse_precedence()
Advance ==
    /\ phase = "compile"
    /\ TopFrame.pc = "advance"
    /\ compiler' = advance_previous(compiler)
    /\ frames' = CallAdvance(IF TopFrame.fn = "compile" THEN "call" ELSE "prefix")
    /\ UNCHANGED <<phase, chunk, vm, result, stdout, stderr, tokens, executed, entry_vm,
                   DriverVars>>

\* one turn of the loop of advance(): a token is scanned; an Error token is
\* reported and the loop goes on, any other token ends advance()
ScanToken ==
    /\ phase = "compile"
    /\ TopFrame.fn = "advance"
    /\ \E t \in {scan_token(compiler.scanner)} :
          /\ tokens' = Append(tokens, t.tok)
          /\ IF t.tok.kind = "Error"
             THEN \E e \in {error_at_current(advance_current(compiler, t), t.tok.lexeme)} :
                     /\ compiler' = e.c
                     /\ stderr' = stderr \o e.err
                     /\ frames' = frames
             ELSE /\ compiler' = advance_current(compiler, t)
                  /\ stderr' = stderr
                  /\ frames' = Return
    /\ UNCHANGED <<phase, chunk, vm, result, stdout, executed, entry_vm, DriverVars>>

\* a grouping() that parses what is inside the parentheses as an operand of a
\* unary operator
callee_precedence_operand(frame) ==
    CASE frame.fn = "compile" -> PREC_ASSIGNMENT
      [] frame.fn \in {"grouping", "unary"} -> PREC_UNARY
      [] frame.fn = "binary" -> binary_operand_precedence(frame.op)

\* callers of parse_precedence that pass Precedence::None for an expression
callee_precedence_none(frame) ==
    CASE frame.fn \in {"compile", "grouping"} -> PREC_NONE
      [] frame.fn = "unary" -> PREC_UNARY
      [] frame.fn = "binary" -> binary_operand_precedence(frame.op)

\* the precedence a caller of parse_precedence passes
callee_precedence(frame) ==
    CASE frame.fn \in {"compile", "grouping"} -> PREC_ASSIGNMENT
      [] frame.fn = "unary" -> PREC_UNARY
      [] frame.fn = "binary" -> binary_operand_precedence(frame.op)

\* the pc a caller of parse_precedence goes on at
after_call(frame) ==
    CASE frame.fn \in {"compile", "grouping"} -> "consume"
      [] frame.fn \in {"unary", "binary"} -> "emit"

\* the call of parse_precedence from expression() (in compile and grouping),
\* unary() and binary()
CallParsePrecedence ==
    /\ phase = "compile"
    /\ TopFrame.pc = "call"
    /\ frames' = Append(Goto(after_call(TopFrame)),
                        Frame("parse_precedence", "advance", callee_precedence(TopFrame), ""))
    /\ UNCHANGED <<phase, compiler, chunk, vm, result, stdout, stderr, tokens,
                   executed, entry_vm, DriverVars>>

\* do_rule_prefix(previous.kind) in parse_precedence
Prefix ==
    /\ phase = "compile"
    /\ TopFrame.fn = "parse_precedence"
    /\ TopFrame.pc = "prefix"
    /\ LET kind == compiler.parser.previous.kind
           rule == prefix_rule(kind)
       IN
       CASE rule \in {"grouping", "unary"} ->
              /\ frames' = Append(Goto("loop"), Frame(rule, "call", PREC_NONE, kind))
              /\ UNCHANGED <<phase, compiler, chunk, stderr>>
         [] rule \in {"number", "literal"} ->
              LET e == IF rule = "number" THEN Compiler_number(compiler, chunk)
                       ELSE literal(compiler, chunk)
              IN  /\ chunk' = e.chunk
                  /\ phase' = IF e.ok THEN phase ELSE "panic"
                  /\ frames' = Goto("loop")
                  /\ UNCHANGED <<compiler, stderr>>
         [] OTHER ->
              LET e == Compiler_error(compiler, Msg("Expect expression.")) IN
              /\ compiler' = e.c
              /\ stderr' = stderr \o e.err
              /\ frames' = Goto("loop")
              /\ UNCHANGED <<phase, chunk>>
    /\ UNCHANGED <<vm, result, stdout, tokens, executed, entry_vm, DriverVars>>

\* whether the loop of parse_precedence takes another turn
infix_continues(precedence, c) == precedence <= get_rule_precedence(c.parser.current.kind)

\* the test of the while loop in parse_precedence: advance() is called for
\* another operator, or parse_precedence returns
InfixLoop ==
    /\ phase = "compile"
    /\ TopFrame.fn = "parse_precedence"
    /\ TopFrame.pc = "loop"
    /\ IF infix_continues(TopFrame.prec, compiler)
       THEN /\ compiler' = advance_previous(compiler)
            /\ frames' = CallAdvance("infix")
       ELSE /\ frames' = Return
            /\ UNCHANGED compiler
    /\ UNCHANGED <<phase, chunk, vm, result, stdout, stderr, tokens, executed, entry_vm,
                   DriverVars>>

\* do_rule_infix(previous.kind) in parse_precedence
Infix ==
    /\ phase = "compile"
    /\ TopFrame.fn = "parse_precedence"
    /\ TopFrame.pc = "infix"
    /\ LET kind == compiler.parser.previous.kind IN
       IF infix_rule(kind) = "binary"
       THEN /\ frames' = Append(Goto("loop"), Frame("binary", "call", PREC_NONE, kind))
            /\ UNCHANGED <<compiler, stderr>>
       ELSE LET e == Compiler_error(compiler, Msg("Expect expression.")) IN
            /\ compiler' = e.c
            /\ stderr' = stderr \o e.err
            /\ frames' = Goto("loop")
    /\ UNCHANGED <<phase, chunk, vm, result, stdout, tokens, executed, entry_vm, DriverVars>>

\* the match on operator_type that ends unary() and binary()
EmitOperator ==
    /\ phase = "compile"
    /\ TopFrame.fn \in {"unary", "binary"}
    /\ TopFrame.pc = "emit"
    /\ LET bytes == IF TopFrame.fn = "unary" THEN unary_bytes(TopFrame.op)
                    ELSE binary_bytes(TopFrame.op)
       IN  /\ chunk' = emit_bytes(compiler, chunk, bytes)
           /\ phase' = IF bytes = <<>> THEN "panic" ELSE phase
    /\ frames' = Return
    /\ UNCHANGED <<compiler, vm, result, stdout, stderr, tokens, executed, entry_vm,
                   DriverVars>>

\* the token kind consume() is called with, and the message
consume_kind(fn) == IF fn = "compile" THEN "EndOfFile" ELSE "RightParen"

consume_message(fn) ==
    IF fn = "compile" THEN Msg("Expect end of expression.")
    ELSE Msg("Expect ')' after expression.")

\* the frames once consume() has returned to the top call: compile() goes on,
\* grouping() returns
AfterConsume == IF TopFrame.fn = "compile" THEN Goto("end") ELSE Return

\* self.consume(..): for the end of the expression in compile(), for the ')'
\* in grouping().  The expected token is passed by advance(), another one is
\* reported at the current token.
Consume ==
    /\ phase = "compile"
    /\ TopFrame.fn \in {"compile", "grouping"}
    /\ TopFrame.pc = "consume"
    /\ IF compiler.parser.current.kind = consume_kind(TopFrame.fn)
       THEN /\ compiler' = advance_previous(compiler)
            /\ frames' = Append(AfterConsume, Frame("advance", "scan", PREC_NONE, ""))
            /\ stderr' = stderr
       ELSE \E e \in {error_at_current(compiler, consume_message(TopFrame.fn))} :
               /\ compiler' = e.c
               /\ stderr' = stderr \o e.err
               /\ frames' = AfterConsume
    /\ UNCHANGED <<phase, chunk, vm, result, stdout, tokens, executed, entry_vm, DriverVars>>

\* self.end_compiler(&mut chunk)
EndCompiler ==
    /\ phase = "compile"
    /\ TopFrame.fn = "compile"
    /\ TopFrame.pc = "end"
    /\ chunk' = emit_return(compiler, chunk)
    /\ frames' = Goto("return")
    /\ UNCHANGED <<phase, compiler, vm, result, stdout, stderr, tokens, executed,
                   entry_vm, DriverVars>>

\* a compile() that returns Ok(chunk) whatever had_error is
compile_result_ok(c, ch) == [ok |-> TRUE, chunk |-> ch]

\* what compile() returns
compile_result(c, ch) ==
    IF c.parser.had_error THEN [ok |-> FALSE, chunk |-> Chunk_new]
    ELSE [ok |-> TRUE, chunk |-> ch]

\* compile() returns, and VM::interpret goes on: a compile error is returned
\* at once, a chunk is installed and run
CompileReturn ==
    /\ phase = "compile"
    /\ TopFrame.fn = "compile"
    /\ TopFrame.pc = "return"
    /\ frames' = Return
    /\ LET r == compile_result(compiler, chunk) IN
       IF r.ok
       THEN /\ vm' = install(vm, r.chunk)
            /\ phase' = "run"
            /\ UNCHANGED result
       ELSE /\ result' = [kind |-> "CompileError", value |-> <<>>]
            /\ phase' = "returned"
            /\ UNCHANGED vm
    /\ UNCHANGED <<compiler, chunk, stdout, stderr, tokens, executed, entry_vm, DriverVars>>

(***************************************************************************)
(* vm.rs: the loop of VM::run, one turn a step                             *)
(***************************************************************************)
\* a turn after which the loop goes on (or the process aborts)
RunDispatch ==
    /\ phase = "run"
    /\ \E r \in {run_step(vm)} :
       /\ r.status \in {"continue", "panic"}
       /\ vm' = r.vm
       /\ stderr' = stderr \o r.err
       /\ phase' = IF r.status = "panic" THEN "panic" ELSE "run"
    /\ executed' = Append(executed, vm.ip)
    /\ UNCHANGED <<compiler, chunk, frames, result, stdout, tokens, entry_vm, DriverVars>>

\* the turn that executes Return: the value is printed and returned
RunReturn ==
    /\ phase = "run"
    /\ \E r \in {run_step(vm)} :
       /\ r.status = "return"
       /\ vm' = r.vm
       /\ stdout' = stdout \o r.out
       /\ result' = [kind |-> "Ok", value |-> r.value]
    /\ phase' = "returned"
    /\ executed' = Append(executed, vm.ip)
    /\ UNCHANGED <<compiler, chunk, frames, stderr, tokens, entry_vm, DriverVars>>

\* the turn that ends in a runtime error
RunRuntimeError ==
    /\ phase = "run"
    /\ \E r \in {run_step(vm)} :
       /\ r.status = "runtime_error"
       /\ vm' = r.vm
       /\ stderr' = stderr \o r.err
       /\ result' = [kind |-> "RuntimeError", value |-> <<>>]
    /\ phase' = "returned"
    /\ executed' = Append(executed, vm.ip)
    /\ UNCHANGED <<compiler, chunk, frames, stdout, tokens, entry_vm, DriverVars>>

Next ==
    \/ Main
    \/ ReplReadLine
    \/ ReplEnd
    \/ ReplContinue
    \/ RunFileRead
    \/ RunFileReadFail
    \/ RunFileExit
    \/ Advance
    \/ ScanToken
    \/ CallParsePrecedence
    \/ Prefix
    \/ InfixLoop
    \/ Infix
    \/ EmitOperator
    \/ Consume
    \/ EndCompiler
    \/ CompileReturn
    \/ RunDispatch
    \/ RunReturn
    \/ RunRuntimeError

Spec == Init /\ [][Next]_vars

(***************************************************************************)
(* compile() on its own: a file is read and compiled.  The compiler runs   *)
(* on one thread that is not stopped, so a step that can be taken is taken.*)
(***************************************************************************)
CompileInit == Init /\ args_len = 2

CompileRunFileRead ==
    /\ phase = "file"
    /\ \E source \in CompileSources : InterpretBegin(source)
    /\ UNCHANGED <<args_len, nlines, exit_code>>

CompileNext ==
    \/ Main
    \/ CompileRunFileRead
    \/ Advance
    \/ ScanToken
    \/ CallParsePrecedence
    \/ Prefix
    \/ InfixLoop
    \/ Infix
    \/ EmitOperator
    \/ Consume
    \/ EndCompiler
    \/ CompileReturn

CompileSpec == CompileInit /\ [][CompileNext]_vars

CompileFairSpec == CompileSpec /\ WF_vars(CompileNext)

(***************************************************************************)
(* The REPL given an expression and then, line after line, the line before *)
(* in parentheses: the VM still holds the chunk of the last line that      *)
(* compiled when the next line is compiled.                                *)
(***************************************************************************)
GroupInit == Init /\ args_len = 1

GroupReadLine ==
    /\ phase = "repl"
    /\ nlines < MaxLines
    /\ IF nlines = 0
       THEN \E buffer \in CompileSources : InterpretBegin(buffer)
       ELSE InterpretBegin(<<"(">> \o compiler.scanner.source \o <<")">>)
    /\ nlines' = nlines + 1
    /\ UNCHANGED <<args_len, exit_code>>

GroupNext ==
    \/ Main
    \/ GroupReadLine
    \/ ReplContinue
    \/ Advance
    \/ ScanToken
    \/ CallParsePrecedence
    \/ Prefix
    \/ InfixLoop
    \/ Infix
    \/ EmitOperator
    \/ Consume
    \/ EndCompiler
    \/ CompileReturn
    \/ RunDispatch
    \/ RunReturn
    \/ RunRuntimeError

GroupSpec == GroupInit /\ [][GroupNext]_vars

(***************************************************************************)
(* chunk.rs on its own: a byte is written to a chunk, an opcode cast to u8 *)
(* or any byte, and the byte read back is decoded                          *)
(***************************************************************************)
OpCodeInit ==
    /\ phase = "opcode"
    /\ args_len = 1
    /\ nlines = 0
    /\ exit_code = -1
    /\ compiler = Compiler_new(<<>>)
    /\ chunk = Chunk_new
    /\ frames = <<>>
    /\ vm = VM_new
    /\ result = NoResult
    /\ stdout = <<>>
    /\ stderr = <<>>
    /\ tokens = <<>>
    /\ executed = <<>>
    /\ entry_vm = VM_new

\* chunk.write(opcode as u8, line); result keeps the opcode that was written
WriteOpCode ==
    /\ phase = "opcode"
    /\ chunk.code = <<>>
    /\ \E i \in DOMAIN OpCode :
          /\ chunk' = Chunk_write(chunk, OpCode_as_u8(OpCode[i]), 1)
          /\ result' = [kind |-> "OpCode", value |-> OpCode[i]]
    /\ UNCHANGED <<phase, args_len, nlines, exit_code, compiler, frames, vm, stdout,
                   stderr, tokens, executed, entry_vm>>

\* chunk.write(byte, line) for any u8
WriteByte ==
    /\ phase = "opcode"
    /\ chunk.code = <<>>
    /\ \E byte \in 0..U8_MAX : chunk' = Chunk_write(chunk, byte, 1)
    /\ UNCHANGED <<phase, args_len, nlines, exit_code, compiler, frames, vm, result,
                   stdout, stderr, tokens, executed, entry_vm>>

\* OpCode::try_from(chunk.get_code(0))
DecodeByte ==
    /\ phase = "opcode"
    /\ chunk.code # <<>>
    /\ \E r \in {try_from(Chunk_get_code(chunk, 0))} :
          result' = [kind |-> IF r.ok THEN "Ok" ELSE "Err", value |-> r.op]
    /\ phase' = "decoded"
    /\ UNCHANGED <<args_len, nlines, exit_code, compiler, chunk, frames, vm, stdout,
                   stderr, tokens, executed, entry_vm>>

OpCodeNext == WriteOpCode \/ WriteByte \/ DecodeByte

OpCodeSpec == OpCodeInit /\ [][OpCodeNext]_vars

(***************************************************************************)
(* The same program run on the files that fill the constant pool           *)
(***************************************************************************)
PoolInit == Init /\ args_len = 2

PoolRunFileRead ==
    /\ phase = "file"
    /\ \E source \in PoolSources : InterpretBegin(source)
    /\ UNCHANGED <<args_len, nlines, exit_code>>

PoolNext ==
    \/ Main
    \/ PoolRunFileRead
    \/ RunFileExit
    \/ Advance
    \/ ScanToken
    \/ CallParsePrecedence
    \/ Prefix
    \/ InfixLoop
    \/ Infix
    \/ EmitOperator
    \/ Consume
    \/ EndCompiler
    \/ CompileReturn
    \/ RunDispatch
    \/ RunReturn

PoolSpec == PoolInit /\ [][PoolNext]_vars

(***************************************************************************)
(* scanner.rs on its own: a Scanner is made for a source and scan_token is *)
(* called again and again, as the tests of scanner.rs and advance() do     *)
(***************************************************************************)
ScanInit ==
    /\ phase = "scan"
    /\ args_len = 1
    /\ nlines = 0
    /\ exit_code = -1
    /\ compiler \in {Compiler_new(source) : source \in ScanSources}
    /\ chunk = Chunk_new
    /\ frames = <<>>
    /\ vm = VM_new
    /\ result = NoResult
    /\ stdout = <<>>
    /\ stderr = <<>>
    /\ tokens = <<>>
    /\ executed = <<>>
    /\ entry_vm = VM_new

\* scan_token has returned EndOfFile
AtEnd == tokens # <<>> /\ tokens[Len(tokens)].kind = "EndOfFile"

\* one call of scan_token
Scan ==
    /\ \E t \in {scan_token(compiler.scanner)} :
          /\ compiler' = [compiler EXCEPT !.scanner = t.sc]
          /\ tokens' = Append(tokens, t.tok)
    /\ UNCHANGED <<phase, chunk, frames, vm, result, stdout, stderr, executed, entry_vm,
                   DriverVars>>

\* a call before the end of the source has been reported
ScanCall == phase = "scan" /\ ~AtEnd /\ Scan

\* a call after EndOfFile has been returned
ScanAgain ==
    /\ phase = "scan"
    /\ AtEnd
    /\ Len(SelectSeq(tokens, LAMBDA t : t.kind = "EndOfFile")) <= MaxEndCalls
    /\ Scan

ScanNext == ScanCall \/ ScanAgain

ScanSpec == ScanInit /\ [][ScanNext]_vars

\* the caller goes on calling scan_token
ScanFairSpec == ScanSpec /\ WF_vars(ScanNext)

\* the scanner on the sources made of keywords and of what is close to them
WordInit ==
    /\ phase = "scan"
    /\ args_len = 1
    /\ nlines = 0
    /\ exit_code = -1
    /\ compiler \in {Compiler_new(source) : source \in WordSources}
    /\ chunk = Chunk_new
    /\ frames = <<>>
    /\ vm = VM_new
    /\ result = NoResult
    /\ stdout = <<>>
    /\ stderr = <<>>
    /\ tokens = <<>>
    /\ executed = <<>>
    /\ entry_vm = VM_new

WordSpec == WordInit /\ [][ScanNext]_vars

(***************************************************************************)
(* What the properties are stated with: the decoding of a chunk, and a     *)
(* reference parser and evaluator for the expression grammar               *)
(*   equality   -> comparison (("==" | "!=") comparison)*                  *)
(*   comparison -> term ((">" | ">=" | "<" | "<=") term)*                  *)
(*   term       -> factor (("+" | "-") factor)*                            *)
(*   factor     -> unary (("*" | "/") unary)*                              *)
(*   unary      -> ("-" | "!") unary | primary                             *)
(*   primary    -> NUMBER | "true" | "false" | "nil" | "(" equality ")"    *)
(* The reference takes the tokens the scanner returned; it shares nothing  *)
(* with the compiler but parse_f64 and the f64 arithmetic.                 *)
(***************************************************************************)
Last(seq) == seq[Len(seq)]

IsPrefix(short, long) == Len(short) <= Len(long) /\ SubSeq(long, 1, Len(short)) = short

\* the instructions of a code array, decoded from its first byte: Constant
\* takes one operand byte, every other opcode none; at is the offset of the
\* opcode.  ok is FALSE when a byte in opcode position is no opcode or the
\* operand of a Constant is missing.
RECURSIVE Decode(_, _, _)
Decode(code, i, ins) ==
    IF i > Len(code) THEN [ok |-> TRUE, ins |-> ins]
    ELSE IF code[i] \notin OpCodes THEN [ok |-> FALSE, ins |-> ins]
    ELSE IF code[i] # OP_CONSTANT
         THEN Decode(code, i + 1, Append(ins, [at |-> i - 1, op |-> code[i], operand |-> -1]))
    ELSE IF i + 1 > Len(code) THEN [ok |-> FALSE, ins |-> ins]
    ELSE Decode(code, i + 2, Append(ins, [at |-> i - 1, op |-> code[i], operand |-> code[i + 1]]))

Instructions(ch) == Decode(ch.code, 1, <<>>)

\* the Constant instructions among the instructions of a chunk
ConstantInstructions(ch) == SelectSeq(Instructions(ch).ins, LAMBDA x : x.op = OP_CONSTANT)

\* an instruction with the value it loads in the place of a pool index
Abstract(op, value) == [op |-> op, value |-> value]

AbstractCode(ch) ==
    [k \in 1..Len(Instructions(ch).ins) |->
        LET x == Instructions(ch).ins[k] IN
        IF x.op = OP_CONSTANT /\ x.operand < Len(ch.constants)
        THEN Abstract(x.op, <<ch.constants[x.operand + 1]>>)
        ELSE Abstract(x.op, <<>>)]

KindAt(toks, pos) == IF pos <= Len(toks) THEN toks[pos].kind ELSE "EndOfFile"

\* the rung of the ladder a binary operator stands on, 0 for any other token
RefLevel(kind) ==
    CASE kind \in {"EqualEqual", "BangEqual"} -> 1
      [] kind \in {"Greater", "GreaterEqual", "Less", "LessEqual"} -> 2
      [] kind \in {"Plus", "Minus"} -> 3
      [] kind \in {"Star", "Slash"} -> 4
      [] OTHER -> 0

TypeError == [tag |-> "TypeError"]

RefNumbers(a, b) == a.tag = "Number" /\ b.tag = "Number"

\* the value of `a kind b`; != , >= and <= are the negations of ==, < and >
RefBinaryVal(kind, a, b) ==
    IF a = TypeError \/ b = TypeError THEN TypeError
    ELSE IF kind = "EqualEqual" THEN Bool(value_eq(a, b))
    ELSE IF kind = "BangEqual" THEN Bool(~value_eq(a, b))
    ELSE IF ~RefNumbers(a, b) THEN TypeError
    ELSE CASE kind = "Plus" -> Number(f64_add(a.num, b.num))
           [] kind = "Minus" -> Number(f64_sub(a.num, b.num))
           [] kind = "Star" -> Number(f64_mul(a.num, b.num))
           [] kind = "Slash" -> Number(f64_div(a.num, b.num))
           [] kind = "Greater" -> Bool(f64_gt(a.num, b.num))
           [] kind = "GreaterEqual" -> Bool(~f64_lt(a.num, b.num))
           [] kind = "Less" -> Bool(f64_lt(a.num, b.num))
           [] kind = "LessEqual" -> Bool(~f64_gt(a.num, b.num))

\* the opcodes that serialize a binary operator
RefBinaryOps(kind) ==
    CASE kind = "EqualEqual" -> <<Abstract(OP_EQUAL, <<>>)>>
      [] kind = "BangEqual" -> <<Abstract(OP_EQUAL, <<>>), Abstract(OP_NOT, <<>>)>>
      [] kind = "Plus" -> <<Abstract(OP_ADD, <<>>)>>
      [] kind = "Minus" -> <<Abstract(OP_SUBTRACT, <<>>)>>
      [] kind = "Star" -> <<Abstract(OP_MULTIPLY, <<>>)>>
      [] kind = "Slash" -> <<Abstract(OP_DIVIDE, <<>>)>>
      [] kind = "Greater" -> <<Abstract(OP_GREATER, <<>>)>>
      [] kind = "GreaterEqual" -> <<Abstract(OP_LESS, <<>>), Abstract(OP_NOT, <<>>)>>
      [] kind = "Less" -> <<Abstract(OP_LESS, <<>>)>>
      [] kind = "LessEqual" -> <<Abstract(OP_GREATER, <<>>), Abstract(OP_NOT, <<>>)>>

\* the value of `-a` and of `!a`
RefUnaryVal(kind, a) ==
    IF a = TypeError THEN TypeError
    ELSE IF kind = "Bang" THEN Bool(a = Nil \/ a = Bool(FALSE))
    ELSE IF a.tag = "Number" THEN Number(f64_neg(a.num))
    ELSE TypeError

\* what the reference gives for an expression: its postfix serialization
\* (out), its value (val) and the position of the token after it (pos)
\* out: the instructions of the expression; src: for each of them, the
\* position of the token it stands for (tok) and of the last token of the
\* expression it completes (last); val: the value; pos: the next token
RefNode(out, src, val, pos) ==
    [ok |-> TRUE, out |-> out, src |-> src, val |-> val, pos |-> pos]

RefFail == [ok |-> FALSE, out |-> <<>>, src |-> <<>>, val |-> TypeError, pos |-> 0]

\* the token at tok, a literal or an operator, as the end of an expression
\* whose last token is at last
RefSrc(role, tok, last) == [role |-> role, tok |-> tok, last |-> last]

RefLiteral(op, val, pos) ==
    RefNode(<<Abstract(op, <<>>)>>, <<RefSrc("literal", pos, pos)>>, val, pos + 1)

\* the operator at tok applied to the operand that follows it
RefApplyUnary(toks, tok, operand) ==
    IF ~operand.ok THEN RefFail
    ELSE RefNode(operand.out \o
                     <<Abstract(IF KindAt(toks, tok) = "Minus" THEN OP_NEGATE ELSE OP_NOT, <<>>)>>,
                 operand.src \o <<RefSrc("unary", tok, operand.pos - 1)>>,
                 RefUnaryVal(KindAt(toks, tok), operand.val), operand.pos)

\* the operator that follows left (at left.pos) applied to left and right
RefApplyBinary(kind, left, right) ==
    IF ~right.ok THEN RefFail
    ELSE RefNode(left.out \o right.out \o RefBinaryOps(kind),
                 left.src \o right.src \o
                     [k \in 1..Len(RefBinaryOps(kind)) |-> RefSrc("binary", left.pos, right.pos - 1)],
                 RefBinaryVal(kind, left.val, right.val), right.pos)

\* the ")" that closes a grouping
RefClose(toks, inner) ==
    IF inner.ok /\ KindAt(toks, inner.pos) = "RightParen"
    THEN [inner EXCEPT !.pos = @ + 1]
    ELSE RefFail

RECURSIVE RefUnary(_, _)
RECURSIVE RefLoop(_, _, _)
RECURSIVE RefParse(_, _, _)
\* an expression of one rung of the ladder, starting at the token at pos
RefParse(level, toks, pos) ==
    IF level > 4 THEN RefUnary(toks, pos)
    ELSE RefLoop(level, toks, RefParse(level + 1, toks, pos))

\* left is what has been parsed so far on this rung: another operator of the
\* rung takes it as its left operand
RefLoop(level, toks, left) ==
    IF left.ok /\ RefLevel(KindAt(toks, left.pos)) = level
    THEN RefLoop(level, toks,
                 RefApplyBinary(KindAt(toks, left.pos), left,
                                RefParse(level + 1, toks, left.pos + 1)))
    ELSE left

RefUnary(toks, pos) ==
    CASE KindAt(toks, pos) \in {"Minus", "Bang"} ->
            RefApplyUnary(toks, pos, RefUnary(toks, pos + 1))
      [] KindAt(toks, pos) = "Number" ->
            RefNode(<<Abstract(OP_CONSTANT, <<Number(parse_f64(toks[pos].lexeme))>>)>>,
                    <<RefSrc("literal", pos, pos)>>, Number(parse_f64(toks[pos].lexeme)), pos + 1)
      [] KindAt(toks, pos) = "True" -> RefLiteral(OP_TRUE, Bool(TRUE), pos)
      [] KindAt(toks, pos) = "False" -> RefLiteral(OP_FALSE, Bool(FALSE), pos)
      [] KindAt(toks, pos) = "Nil" -> RefLiteral(OP_NIL, Nil, pos)
      [] KindAt(toks, pos) = "LeftParen" -> RefClose(toks, RefParse(1, toks, pos + 1))
      [] OTHER -> RefFail

\* the whole token sequence is one expression
RefEnd(toks, r) == IF r.ok /\ KindAt(toks, r.pos) = "EndOfFile" THEN r ELSE RefFail

Reference(toks) == RefEnd(toks, RefParse(1, toks, 1))

\* compile() has returned Ok(chunk) in the current interpret call
Compiled == phase = "run" \/ (phase = "returned" /\ result.kind # "CompileError")

\* the current interpret call has got past compile()
PastCompile == phase \in {"run", "returned"}

(***************************************************************************)
(* Properties                                                              *)
(***************************************************************************)
\* C1: for every source that compiles successfully, the emitted code is the
\* postfix serialization (left operand, right operand, operator opcodes) of the
\* parse tree of the source under the ladder Equality < Comparison < Term <
\* Factor < Unary with left-associative binary operators and a unary operator
\* applied to the operand of Unary precedence; the Return that ends the chunk
\* follows it.
C1_PostfixOfParseTree ==
    Compiled =>
        /\ Reference(tokens).ok
        /\ Instructions(chunk).ok
        /\ AbstractCode(chunk) = Reference(tokens).out \o <<Abstract(OP_RETURN, <<>>)>>

\* `1 - 4 * 6` (or another a - b * c) has compiled: a b c Multiply Subtract Return
C1_Witness ==
    /\ Compiled
    /\ [i \in 1..Len(tokens) |-> tokens[i].kind] =
         <<"Number", "Minus", "Number", "Star", "Number", "EndOfFile", "EndOfFile">>
    /\ chunk.code = <<OP_CONSTANT, 0, OP_CONSTANT, 1, OP_CONSTANT, 2,
                      OP_MULTIPLY, OP_SUBTRACT, OP_RETURN>>

\* C2: for every source that compiles and whose expression has no type error
\* in the reference evaluator, interpret returns Ok with exactly the value
\* the reference evaluator gives (and prints that value).
C2_ReferenceValue ==
    (phase = "returned" /\ result.kind # "CompileError") =>
        /\ Reference(tokens).ok
        /\ Reference(tokens).val # TypeError =>
              /\ result = [kind |-> "Ok", value |-> <<Reference(tokens).val>>]
              /\ stdout = <<Reference(tokens).val>>

\* `(-1 + 2) * 3 - -4` has been interpreted: nine opcodes and the Return, value 7
C2_Witness ==
    /\ phase = "returned"
    /\ result = [kind |-> "Ok", value |-> <<Number(Fin(1, 7, 1))>>]
    /\ Len(executed) = 10
    /\ Reference(tokens).val = Number(Fin(1, 7, 1))

\* the opcode about to be dispatched meets an operand that is no Number:
\* Negate with such a top of stack, or one of the six arithmetic and
\* comparison opcodes with such a value among the two it pops
TypeMismatch ==
    /\ vm.ip < Len(vm.chunk.code)
    /\ \/ /\ vm.chunk.code[vm.ip + 1] = OP_NEGATE
          /\ Len(vm.stack) >= 1
          /\ Last(vm.stack).tag # "Number"
       \/ /\ vm.chunk.code[vm.ip + 1] \in
                {OP_ADD, OP_SUBTRACT, OP_MULTIPLY, OP_DIVIDE, OP_GREATER, OP_LESS}
          /\ Len(vm.stack) >= 2
          /\ (Last(vm.stack).tag # "Number" \/ vm.stack[Len(vm.stack) - 1].tag # "Number")

\* C3: a turn of the dispatch loop ends in a RuntimeError exactly when it is
\* Negate on a top of stack that is no Number or Add, Subtract, Multiply,
\* Divide, Greater or Less with a popped operand that is no Number; no other
\* opcode does, and Divide by a zero Number does not.
C3_RuntimeErrorExactly ==
    [][phase = "run" =>
          ((phase' = "returned" /\ result'.kind = "RuntimeError") <=> TypeMismatch)]_vars

\* `1 + true` (or 1 < true, ...) has failed at its binary opcode
C3_Witness ==
    /\ phase = "returned"
    /\ result.kind = "RuntimeError"
    /\ Len(tokens) >= 3
    /\ tokens[1].kind = "Number"
    /\ tokens[3].kind = "True"
    /\ vm.chunk.code[Last(executed) + 1] \in
          {OP_ADD, OP_SUBTRACT, OP_MULTIPLY, OP_DIVIDE, OP_GREATER, OP_LESS}

\* runtime_error has been called in the current interpret call
RuntimeErrorOccurred == \E j \in 1..Len(stderr) : stderr[j].context = "in script"

\* C4: when a runtime error occurs, interpret returns RuntimeError with the
\* value stack empty, the faulting opcode (a Negate or one of the six binary
\* opcodes) is the last one executed though code follows it, and nothing
\* has been printed.
C4_RuntimeErrorEndsCall ==
    (PastCompile /\ RuntimeErrorOccurred) =>
        /\ phase = "returned"
        /\ result = [kind |-> "RuntimeError", value |-> <<>>]
        /\ vm.stack = <<>>
        /\ stdout = <<>>
        /\ executed # <<>>
        /\ \A i \in 1..Len(executed) - 1 : executed[i] < executed[i + 1]
        /\ vm.ip = Last(executed) + 1
        /\ vm.ip < Len(vm.chunk.code)
        /\ vm.chunk.code[Last(executed) + 1] \in
              {OP_NEGATE, OP_ADD, OP_SUBTRACT, OP_MULTIPLY, OP_DIVIDE, OP_GREATER, OP_LESS}

\* `-false` (or -nil, ...) has failed: the operand was on the stack at the Negate
C4_Witness ==
    /\ RuntimeErrorOccurred
    /\ phase = "returned"
    /\ vm.chunk.code[Last(executed) + 1] = OP_NEGATE
    /\ Len(executed) = 2
    /\ vm.stack = <<>>

\* C5: when the compilation of the source fails (an error was reported),
\* interpret returns CompileError without executing an instruction, and the
\* chunk, ip and stack of the VM are what they were when the call began.
C5_CompileErrorLeavesVM ==
    (PastCompile /\ compiler.parser.had_error) =>
        /\ phase = "returned"
        /\ result = [kind |-> "CompileError", value |-> <<>>]
        /\ vm = entry_vm
        /\ executed = <<>>
        /\ stdout = <<>>

\* at the prompt, a line that does not compile after a line that ran: bytes
\* were emitted for it, and the VM still holds the chunk of the line before
C5_Witness ==
    /\ phase = "returned"
    /\ result.kind = "CompileError"
    /\ Len(chunk.code) > 1
    /\ vm.chunk.code # <<>>
    /\ vm.chunk # chunk
    /\ vm.ip > 0

\* the lines error_at has written in the current interpret call
CompileDiagnostics ==
    SelectSeq(stderr, LAMBDA d : d.context \in {"at end", "none", "at lexeme"})

\* had_error agrees with what was reported and with what compile() returned
HadErrorDecides ==
    /\ phase \in {"compile", "run", "returned"} =>
          (compiler.parser.had_error <=> CompileDiagnostics # <<>>)
    /\ PastCompile =>
          ((phase = "returned" /\ result.kind = "CompileError") <=> compiler.parser.had_error)

\* C6: had_error is a latch: once true during a compile() it stays true; and
\* compile() returns an error if and only if had_error is true at its end,
\* if and only if at least one error was reported during that compile.
C6_HadErrorLatch ==
    /\ []HadErrorDecides
    /\ [][(phase = "compile" /\ compiler.parser.had_error)
              => compiler'.parser.had_error]_vars

\* `1 +` (or the like) has failed to compile: one error reported at the end
\* of the source, and steps taken with had_error set
C6_Witness ==
    /\ phase = "returned"
    /\ result.kind = "CompileError"
    /\ compiler.parser.had_error
    /\ Len(stderr) = 1
    /\ stderr[1].context = "at end"
    /\ chunk.code # <<>>

\* the Error tokens the scanner has returned in the current interpret call
ErrorTokens == SelectSeq(tokens, LAMBDA t : t.kind = "Error")

\* the lines error_at has written for Error tokens
LexDiagnostics == SelectSeq(stderr, LAMBDA d : d.context = "none")

\* advance() never returns with an Error token current, and a scanned Error
\* token makes the compile fail
ErrorTokenPassed ==
    /\ (phase = "compile" /\ tokens # <<>> /\ TopFrame.fn # "advance") =>
          compiler.parser.current.kind # "Error"
    /\ (phase \in {"compile", "run", "returned"} /\ ErrorTokens # <<>>) =>
          /\ compiler.parser.had_error
          /\ phase # "run"
          /\ phase = "returned" => result.kind = "CompileError"

\* a scanned Error token is written to stderr with the message it carries
\* unless the parser is in panic mode already
ErrorTokenReported ==
    (Len(tokens') = Len(tokens) + 1 /\ Last(tokens').kind = "Error") =>
        /\ phase' = "compile"
        /\ TopFrame'.fn = "advance"
        /\ stderr' = IF compiler.parser.panic_mode THEN stderr
                     ELSE Append(stderr, [line |-> Last(tokens').line, context |-> "none",
                                          lexeme |-> <<>>, message |-> Last(tokens').lexeme])

\* C7 (as the code has it): an Error token does not stop scanning: advance
\* hands it to error_at_current with the message it carries, which prints it
\* unless an error was reported before in this compile (panic mode), and
\* scans on until a token that is no Error token is current; a source for
\* which the scanner returns an Error token compiles to CompileError.
C7_ErrorTokens ==
    /\ []ErrorTokenPassed
    /\ [][ErrorTokenReported]_vars

\* two Error tokens with different messages were scanned, one line was
\* written, and the scanner went on to the end of the source
C7_Witness ==
    /\ phase = "returned"
    /\ result.kind = "CompileError"
    /\ Len(ErrorTokens) = 2
    /\ ErrorTokens[1].lexeme # ErrorTokens[2].lexeme
    /\ Len(stderr) = 1
    /\ Last(tokens).kind = "EndOfFile"

\* C7 (as stated): each Error token the scanner returned has been reported
\* with the message it carries
C7_EachErrorTokenReported ==
    [i \in 1..Len(ErrorTokens) |-> ErrorTokens[i].lexeme] =
        [j \in 1..Len(LexDiagnostics) |-> LexDiagnostics[j].message]

\* C8: code and lines of a chunk have the same length after every write, and
\* the code of a successful compile ends with the byte 0 (Return), the only
\* position where Return stands as an opcode.
C8_LinesAndReturn ==
    /\ Len(chunk.code) = Len(chunk.lines)
    /\ Len(vm.chunk.code) = Len(vm.chunk.lines)
    /\ Compiled =>
          /\ chunk.code # <<>>
          /\ Last(chunk.code) = 0
          /\ Instructions(chunk).ok
          /\ \A k \in 1..Len(Instructions(chunk).ins) :
                (Instructions(chunk).ins[k].op = OP_RETURN) <=> (k = Len(Instructions(chunk).ins))

\* a chunk whose first constant is loaded has compiled: the byte 0 stands at
\* offset 1 as an operand and at the end as Return
C8_Witness ==
    /\ Compiled
    /\ Len(chunk.code) >= 5
    /\ chunk.code[1] = OP_CONSTANT
    /\ chunk.code[2] = 0
    /\ Last(chunk.code) = 0

\* every byte of the chunk decodes: opcodes, and one operand after each
\* Constant, the operand an index into the pool
WellFormed(ch) ==
    /\ Instructions(ch).ok
    /\ Len(ch.code) = Len(Instructions(ch).ins) + Len(ConstantInstructions(ch))
    /\ \A k \in 1..Len(Instructions(ch).ins) :
          /\ Instructions(ch).ins[k].op \in OpCodes
          /\ IF Instructions(ch).ins[k].op = OP_CONSTANT
             THEN Instructions(ch).ins[k].operand \in 0..(Len(ch.constants) - 1)
             ELSE Instructions(ch).ins[k].operand = -1

\* C9: in every chunk compile() produces (and the VM is given), decoding from
\* offset 0 with one operand byte after Constant and none after any other
\* opcode, every decoded byte is one of the 14 opcodes, an operand follows
\* only a Constant, and every Constant operand is below len(constants).
C9_ChunkDecodes ==
    /\ Compiled => WellFormed(chunk)
    /\ WellFormed(vm.chunk)

\* a chunk with three Constant instructions is in the VM
C9_Witness ==
    /\ phase = "run"
    /\ Len(ConstantInstructions(vm.chunk)) = 3
    /\ Len(vm.chunk.constants) = 3

\* the Number tokens the scanner has returned in the current interpret call
NumberTokens == SelectSeq(tokens, LAMBDA t : t.kind = "Number")

\* the k-th Constant instruction carries k-1, and the pool holds the values of
\* the number literals in the order they were parsed
ConstantsInOrder ==
    /\ Instructions(chunk).ok
    /\ Len(ConstantInstructions(chunk)) = Len(chunk.constants)
    /\ \A k \in 1..Len(ConstantInstructions(chunk)) :
          ConstantInstructions(chunk)[k].operand = k - 1
    /\ Len(chunk.constants) <= Len(NumberTokens)
    /\ \A k \in 1..Len(chunk.constants) :
          chunk.constants[k] = Number(parse_f64(NumberTokens[k].lexeme))

\* C10: constants are interned by appending, without deduplication: the k-th
\* Constant instruction emitted in a compile carries operand k-1, and
\* constants[k-1] is the value of the k-th number literal parsed; an entry of
\* the pool is never changed or removed.
C10_ConstantsAppendOnly ==
    /\ [](phase \in {"compile", "run", "returned"} => ConstantsInOrder)
    /\ [][(phase = "compile" /\ phase' = "compile")
              => IsPrefix(chunk.constants, chunk'.constants)]_vars

\* `1 + 1` (or 1 - 1, ...) has compiled: two equal entries in the pool
C10_Witness ==
    /\ Compiled
    /\ Len(chunk.constants) = 2
    /\ chunk.constants[1] = chunk.constants[2]
    /\ ConstantInstructions(chunk)[2].operand = 1

\* the pool never holds more than 256 entries while the process lives; the
\* process has aborted in compile() only with a 257th entry just added, no
\* error reported and no result returned
PoolCapped ==
    /\ phase # "panic" => Len(chunk.constants) <= U8_MAX + 1
    /\ phase = "panic" =>
          /\ Len(chunk.constants) = U8_MAX + 2
          /\ result = NoResult
          /\ stderr = <<>>
          /\ ~compiler.parser.had_error
          /\ exit_code = -1

\* a step of compile() that adds to the pool
Interns == phase = "compile" /\ Len(chunk'.constants) > Len(chunk.constants)

\* C11: interning a number literal aborts the process exactly when the pool
\* would exceed 256 entries: the first 256 literals get the indices 0..255
\* and compile normally (Constant and the index are written), the 257th
\* aborts, with no CompileError and no wrapped index written.
C11_PoolLimit ==
    /\ []PoolCapped
    /\ [][Interns =>
              /\ Len(chunk'.constants) = Len(chunk.constants) + 1
              /\ (phase' = "panic") <=> (Len(chunk'.constants) > U8_MAX + 1)
              /\ chunk'.code = IF phase' = "panic" THEN chunk.code
                               ELSE chunk.code \o <<OP_CONSTANT, Len(chunk.constants)>>]_vars

\* the 257th literal of a source has aborted the process
C11_Witness ==
    /\ phase = "panic"
    /\ Len(chunk.constants) = U8_MAX + 2
    /\ Len(NumberTokens) >= U8_MAX + 2
    /\ Len(chunk.code) = 3 * (U8_MAX + 1) - 1

\* C12: every byte written during a compile is recorded with the line of the
\* parser's `previous` token at the moment of emission: a step of compile()
\* only appends to code and lines, as many lines as bytes, each new line that
\* of parser.previous; so 5, *, 6 on three lines compile with the lines
\* 1, 1, 3, 3, 3, 3.
C12_LineOfPrevious ==
    /\ [](Compiled /\ compiler.scanner.source = <<"5", "\n", "*", "\n", "6">>
             => chunk.lines = <<1, 1, 3, 3, 3, 3>>)
    /\ [][phase = "compile" =>
              /\ IsPrefix(chunk.code, chunk'.code)
              /\ IsPrefix(chunk.lines, chunk'.lines)
              /\ Len(chunk'.lines) - Len(chunk.lines) = Len(chunk'.code) - Len(chunk.code)
              /\ \A k \in (Len(chunk.lines) + 1)..Len(chunk'.lines) :
                    chunk'.lines[k] = compiler.parser.previous.line]_vars

\* 5, *, 6 on three lines have compiled: Constant 0, Constant 1, Multiply and
\* Return, the last four bytes written while `previous` was on line 3
C12_Witness ==
    /\ Compiled
    /\ compiler.scanner.source = <<"5", "\n", "*", "\n", "6">>
    /\ chunk.code = <<OP_CONSTANT, 0, OP_CONSTANT, 1, OP_MULTIPLY, OP_RETURN>>
    /\ chunk.lines = <<1, 1, 3, 3, 3, 3>>
    /\ [i \in 1..3 |-> tokens[i].line] = <<1, 2, 3>>

\* the instructions of the compiled chunk that binary operators wrote: k is
\* the place of the instruction in the chunk and among those of the reference
BinaryWritten ==
    {k \in 1..Len(Reference(tokens).src) : Reference(tokens).src[k].role = "binary"}

\* the line the chunk records for the opcode byte of its k-th instruction
OpcodeLine(k) == chunk.lines[Instructions(chunk).ins[k].at + 1]

\* C13 (amended): the line recorded for the opcode bytes of a binary operator
\* is the line of the last token of its right operand, the token the parser
\* has in `previous` when binary() emits, whatever the line of the operator
\* token is.
C13_OperatorLine ==
    Compiled =>
        /\ Len(Instructions(chunk).ins) = Len(Reference(tokens).src) + 1
        /\ \A k \in BinaryWritten :
              /\ Reference(tokens).src[k].last > Reference(tokens).src[k].tok
              /\ OpcodeLine(k) = tokens[Reference(tokens).src[k].last].line

\* an operator alone on its line between its operands has been compiled: its
\* opcode carries the line of the right operand, not its own
C13_Witness ==
    /\ Compiled
    /\ \E k \in BinaryWritten :
          /\ OpcodeLine(k) = tokens[Reference(tokens).src[k].last].line
          /\ OpcodeLine(k) # tokens[Reference(tokens).src[k].tok].line
          /\ tokens[Reference(tokens).src[k].tok].kind = "Star"

\* C13 (as stated): the line recorded for the opcode byte of a binary
\* operator is the line of the operator token itself
C13_OperatorTokenLine ==
    Compiled =>
        \A k \in BinaryWritten : OpcodeLine(k) = tokens[Reference(tokens).src[k].tok].line

\* the "[line L] in script" lines of the current interpret call
ScriptDiagnostics == SelectSeq(stderr, LAMBDA d : d.context = "in script")

\* the offsets of the opcode bytes of a chunk
OpcodeOffsets(ch) == {Instructions(ch).ins[k].at : k \in 1..Len(Instructions(ch).ins)}

\* C14: the line reported with a runtime error is lines[ip - 1] at the time
\* of the error, and ip - 1 is the offset of the opcode that failed, never
\* that of an operand byte and never out of range.
C14_RuntimeErrorLine ==
    (PastCompile /\ RuntimeErrorOccurred) =>
        /\ Len(ScriptDiagnostics) = 1
        /\ vm.ip - 1 \in 0..(Len(vm.chunk.lines) - 1)
        /\ ScriptDiagnostics[1].line = vm.chunk.lines[(vm.ip - 1) + 1]
        /\ vm.ip - 1 = Last(executed)
        /\ vm.ip - 1 \in OpcodeOffsets(vm.chunk)
        /\ vm.chunk.code[(vm.ip - 1) + 1] \in
              {OP_NEGATE, OP_ADD, OP_SUBTRACT, OP_MULTIPLY, OP_DIVIDE, OP_GREATER, OP_LESS}

\* a runtime error has been reported with the line of the opcode that
\* failed, the byte that follows it being of another line
C14_Witness ==
    /\ phase = "returned"
    /\ RuntimeErrorOccurred
    /\ vm.ip < Len(vm.chunk.lines)
    /\ ScriptDiagnostics[1].line = vm.chunk.lines[vm.ip]
    /\ vm.chunk.lines[vm.ip] # vm.chunk.lines[vm.ip + 1]

\* the operator at the root of the compiled expression, when there is one:
\* the last instruction of the expression is its opcode
RootSrc == Last(Reference(tokens).src)

RootIs(kinds) ==
    /\ Reference(tokens).src # <<>>
    /\ RootSrc.role = "binary"
    /\ tokens[RootSrc.tok].kind \in kinds

\* the values of the operands of the root operator
RootLeft == Reference(SubSeq(tokens, 1, RootSrc.tok - 1)).val

RootRight == Reference(SubSeq(tokens, RootSrc.tok + 1, Len(tokens))).val

\* the result of a comparison, from the definition of the claim: > and < are
\* those of IEEE-754, false when an operand is NaN
Compared(kind, a, b) ==
    CASE kind = "Greater" -> ~IsNaN(a) /\ ~IsNaN(b) /\ f64_gt(a, b)
      [] kind = "Less" -> ~IsNaN(a) /\ ~IsNaN(b) /\ f64_lt(a, b)
      [] kind = "LessEqual" -> IsNaN(a) \/ IsNaN(b) \/ ~f64_gt(a, b)
      [] kind = "GreaterEqual" -> IsNaN(a) \/ IsNaN(b) \/ ~f64_lt(a, b)

\* the bytes the chunk ends with, the Return left out
EndsWith(bytes) ==
    /\ Len(chunk.code) > Len(bytes)
    /\ SubSeq(chunk.code, Len(chunk.code) - Len(bytes), Len(chunk.code) - 1) = bytes

\* a comparison of two Numbers is the whole source and has been evaluated
ComparisonEvaluated ==
    /\ phase = "returned"
    /\ result.kind = "Ok"
    /\ RootIs({"Greater", "Less", "LessEqual", "GreaterEqual"})

\* C15: a <= b is compiled as Greater, Not and a >= b as Less, Not; the
\* results are Bool(not (a > b)) and Bool(not (a < b)), so that with a NaN
\* operand <= and >= give true while < and > give false.
C15_ComparisonDesugared ==
    /\ Compiled /\ RootIs({"LessEqual"}) => EndsWith(<<OP_GREATER, OP_NOT>>)
    /\ Compiled /\ RootIs({"GreaterEqual"}) => EndsWith(<<OP_LESS, OP_NOT>>)
    /\ Compiled /\ RootIs({"Greater"}) => EndsWith(<<OP_GREATER>>)
    /\ Compiled /\ RootIs({"Less"}) => EndsWith(<<OP_LESS>>)
    /\ ComparisonEvaluated =>
          /\ RootLeft.tag = "Number"
          /\ RootRight.tag = "Number"
          /\ result.value =
                <<Bool(Compared(tokens[RootSrc.tok].kind, RootLeft.num, RootRight.num))>>

\* 0/0 <= 1 and 1 >= 0/0 have given true
C15_Witness ==
    /\ ComparisonEvaluated
    /\ tokens[RootSrc.tok].kind \in {"LessEqual", "GreaterEqual"}
    /\ IsNaN(RootLeft.num) \/ IsNaN(RootRight.num)
    /\ result.value = <<Bool(TRUE)>>
    /\ Last(executed) = Len(chunk.code) - 1

\* two values are of the same variant with equal payloads; Numbers are equal
\* as IEEE-754 has it: neither is NaN and neither is below the other
SameValue(a, b) ==
    /\ a.tag = b.tag
    /\ a.tag = "Bool" => a.b = b.b
    /\ a.tag = "Number" =>
          ~IsNaN(a.num) /\ ~IsNaN(b.num) /\ ~f64_lt(a.num, b.num) /\ ~f64_lt(b.num, a.num)

\* the turn of the loop of VM::run that dispatches Equal
EqualDispatched == phase = "run" /\ run_step(vm).status = "continue"
                       /\ vm.chunk.code[vm.ip + 1] = OP_EQUAL

\* an equality is the whole source and has been evaluated
EqualityEvaluated == phase = "returned" /\ RootIs({"EqualEqual", "BangEqual"})

\* C16: Equal pushes true iff its two operands are of the same variant with
\* equal payloads, in place of the two operands (true == 1 and false == nil
\* are false, nil == nil is true, NaN is not equal to NaN), and a != b is
\* always the negation of a == b.
C16_Equality ==
    /\ [](EqualityEvaluated =>
             result = [kind |-> "Ok",
                       value |-> <<Bool((tokens[RootSrc.tok].kind = "EqualEqual")
                                            <=> SameValue(RootLeft, RootRight))>>])
    /\ [][EqualDispatched =>
              /\ Len(vm.stack) >= 2
              /\ vm'.stack = SubSeq(vm.stack, 1, Len(vm.stack) - 2) \o
                     <<Bool(SameValue(vm.stack[Len(vm.stack) - 1], Last(vm.stack)))>>
              /\ vm'.ip = vm.ip + 1]_vars

\* 0/0 == 0/0 has given false
C16_Witness ==
    /\ EqualityEvaluated
    /\ tokens[RootSrc.tok].kind = "EqualEqual"
    /\ RootLeft.tag = "Number"
    /\ IsNaN(RootLeft.num)
    /\ RootLeft = RootRight
    /\ result.value = <<Bool(FALSE)>>

\* the turn of the loop of VM::run that dispatches Not
NotDispatched == phase = "run" /\ run_step(vm).status = "continue"
                     /\ vm.chunk.code[vm.ip + 1] = OP_NOT

\* `!` applied to an operand is the whole source and has been evaluated, the
\* operand without a runtime error
NotEvaluated ==
    /\ phase = "returned"
    /\ result.kind = "Ok"
    /\ Reference(tokens).src # <<>>
    /\ RootSrc = RefSrc("unary", 1, RootSrc.last)
    /\ tokens[1].kind = "Bang"

\* the value of the operand of the `!` the source begins with
NotOperand == Reference(SubSeq(tokens, 2, Len(tokens))).val

\* C17: is_falsey is true exactly for Nil and Bool(false), every Number
\* (0 included) being truthy; Not replaces the top of the stack by
\* Bool(is_falsey(top)) and leaves the depth as it is: !0 is false, !nil true.
C17_Falsey ==
    /\ [](NotEvaluated => result.value = <<Bool(NotOperand \in {Nil, Bool(FALSE)})>>)
    /\ [][NotDispatched =>
              /\ vm.stack # <<>>
              /\ Len(vm'.stack) = Len(vm.stack)
              /\ SubSeq(vm'.stack, 1, Len(vm.stack) - 1) = SubSeq(vm.stack, 1, Len(vm.stack) - 1)
              /\ Last(vm'.stack) = Bool(Last(vm.stack) \in {Nil, Bool(FALSE)})
              /\ vm'.ip = vm.ip + 1]_vars

\* !0 has given false
C17_Witness ==
    /\ NotEvaluated
    /\ NotOperand = Number(Zero(1))
    /\ result.value = <<Bool(FALSE)>>
    /\ Len(executed) = 3

\* C18: called again and again, scan_token returns EndOfFile after finitely
\* many calls, no more calls than the source has bytes before it; from then
\* on every call returns EndOfFile with the same line and leaves current and
\* line as they are.
C18_EndOfFile ==
    /\ <>AtEnd
    /\ [](~AtEnd => Len(tokens) <= compiler.scanner.current)
    /\ [](AtEnd => compiler.scanner.current = Len(compiler.scanner.source))
    /\ [][AtEnd =>
              /\ tokens' = Append(tokens, Last(tokens))
              /\ compiler'.scanner.current = compiler.scanner.current
              /\ compiler'.scanner.line = compiler.scanner.line]_vars

\* EndOfFile has been returned three times after the tokens of a source
\* that ends on its second line
C18_Witness ==
    /\ phase = "scan"
    /\ Len(tokens) >= 4
    /\ tokens[1].kind # "EndOfFile"
    /\ \A k \in (Len(tokens) - 2)..Len(tokens) :
          tokens[k] = [kind |-> "EndOfFile", lexeme |-> <<>>, line |-> 2]
    /\ tokens[Len(tokens) - 3].kind # "EndOfFile"

\* the 1-based line of the byte at offset off of a source: one more than the
\* line feeds before it
LineOfOffset(source, off) == 1 + Cardinality({i \in 1..off : source[i] = "\n"})

\* C19 (as stated): every token scan_token returns carries the line on which
\* it begins, the line of its first character, String tokens and the Error
\* tokens of unterminated strings over several lines included.
C19_LineWhereTokenBegins ==
    (phase = "scan" /\ tokens # <<>>) =>
        Last(tokens).line = LineOfOffset(compiler.scanner.source, compiler.scanner.start)

\* a source from its i-th character on with what scan_token skips between
\* tokens removed: blanks, line ends and comments outside of strings
RECURSIVE Strip(_, _, _)
Strip(source, i, mode) ==
    IF i > Len(source) THEN <<>>
    ELSE CASE mode = "string" ->
                <<source[i]>> \o Strip(source, i + 1, IF source[i] = "\"" THEN "code" ELSE "string")
           [] mode = "comment" ->
                Strip(source, i + 1, IF source[i] = "\n" THEN "code" ELSE "comment")
           [] OTHER ->
                IF source[i] \in {" ", "\r", "\t", "\n"} THEN Strip(source, i + 1, "code")
                ELSE IF source[i] = "/" /\ i < Len(source) /\ source[i + 1] = "/"
                     THEN Strip(source, i + 2, "comment")
                ELSE <<source[i]>> \o Strip(source, i + 1, IF source[i] = "\"" THEN "string" ELSE "code")

\* the lexemes of tokens, one after the other
RECURSIVE Lexemes(_)
Lexemes(toks) == IF toks = <<>> THEN <<>> ELSE Head(toks).lexeme \o Lexemes(Tail(toks))

NoErrorToken == \A k \in 1..Len(tokens) : tokens[k].kind # "Error"

\* what a call of scan_token has passed over before the token it returns
Skipped == SubSeq(compiler.scanner.source, compiler.scanner.current + 1, compiler'.scanner.start)

\* C20 (amended): for a source the scanner finds no Error token in, the
\* lexemes of the tokens up to EndOfFile, one after the other, are the source
\* without the blanks, line ends and comments between tokens; for every
\* source the spans of the tokens (Error tokens included, whose lexeme is a
\* message and not their span) are disjoint, in increasing order, not empty
\* but for EndOfFile, and what lies between them is blanks, line ends and
\* comments only.
C20_LexemesTile ==
    /\ []((phase = "scan" /\ AtEnd /\ NoErrorToken) =>
             Lexemes(tokens) = Strip(compiler.scanner.source, 1, "code"))
    /\ []((phase = "scan" /\ tokens # <<>> /\ Last(tokens).kind # "Error") =>
             Last(tokens).lexeme = SubSeq(compiler.scanner.source, compiler.scanner.start + 1,
                                          compiler.scanner.current))
    /\ [][phase = "scan" =>
              /\ compiler.scanner.current <= compiler'.scanner.start
              /\ compiler'.scanner.start <= compiler'.scanner.current
              /\ compiler'.scanner.current <= Len(compiler.scanner.source)
              /\ Strip(Skipped, 1, "code") = <<>>
              /\ (Last(tokens').kind = "EndOfFile") <=>
                    (compiler'.scanner.start = compiler'.scanner.current)
              /\ (Last(tokens').kind = "EndOfFile") =>
                    compiler'.scanner.start = Len(compiler.scanner.source)]_vars

\* a number, a comment and a string with a blank in it have been scanned
C20_Witness ==
    /\ phase = "scan"
    /\ AtEnd
    /\ Len(tokens) = 3
    /\ tokens[2].kind = "String"
    /\ Lexemes(tokens) = <<"1", "\"", "x", " ", "y", "\"">>
    /\ Len(compiler.scanner.source) = 12

\* C20 (as stated): for any source, the lexemes of the tokens returned up to
\* the first EndOfFile, one after the other, are the source without the
\* skipped blanks, line ends and comments.
C20_LexemesReproduceSource ==
    (phase = "scan" /\ AtEnd) => Lexemes(tokens) = Strip(compiler.scanner.source, 1, "code")

\* the kind of an identifier-shaped lexeme, from the list of the keywords
KeywordKind(lexeme) ==
    IF \E k \in Keywords : k.text = lexeme
    THEN (CHOOSE k \in Keywords : k.text = lexeme).kind
    ELSE "Identifier"

\* a token whose lexeme has the shape of an identifier
IdentifierShaped(t) ==
    /\ t.kind \notin {"Error", "EndOfFile"}
    /\ t.lexeme[1] \in ASCII_ALPHABETIC \cup {"_"}

\* C21: an identifier-shaped lexeme gets a keyword kind if and only if the
\* whole lexeme is one of the 16 keywords, and then that keyword's kind;
\* every beginning or extension of a keyword and every other identifier is
\* an Identifier; the classification reads no byte outside the lexeme.
C21_Keywords ==
    /\ \A k \in 1..Len(tokens) :
          IdentifierShaped(tokens[k]) => tokens[k].kind = KeywordKind(tokens[k].lexeme)
    /\ (tokens # <<>> /\ IdentifierShaped(Last(tokens))) =>
          identifier_reads(compiler.scanner) \subseteq
              compiler.scanner.start..(compiler.scanner.current - 1)

\* true, tru, truex and t have been scanned: one keyword, three identifiers
C21_Witness ==
    /\ phase = "scan"
    /\ Len(tokens) = 4
    /\ [k \in 1..4 |-> tokens[k].kind] = <<"True", "Identifier", "Identifier", "Identifier">>
    /\ tokens[2].lexeme = <<"t", "r", "u">>
    /\ tokens[3].lexeme = <<"t", "r", "u", "e", "x">>
    /\ identifier_reads(compiler.scanner) = {compiler.scanner.start}

\* the process has ended after it was started with a path, or with more
\* arguments than one path
FileModeEnded == phase = "exit" /\ args_len >= 2

\* C22: in file mode the exit code is 0 when interpret succeeds, 65 when it
\* returns CompileError, 70 when it returns RuntimeError, 74 when the file
\* cannot be read, the VM then never invoked, and 64 when more than one path
\* argument is given.
C22_ExitCodes ==
    /\ FileModeEnded =>
          /\ exit_code \in {0, 64, 65, 70, 74}
          /\ (exit_code = 64) <=> (args_len > 2)
          /\ (exit_code = 74) <=> (args_len = 2 /\ result = NoResult)
          /\ (exit_code = 0) <=> (result.kind = "Ok")
          /\ (exit_code = 65) <=> (result.kind = "CompileError")
          /\ (exit_code = 70) <=> (result.kind = "RuntimeError")
          /\ exit_code = 0 => Len(stdout) = 1 /\ stderr = <<>>
          /\ exit_code = 65 => stderr # <<>> /\ ~RuntimeErrorOccurred /\ executed = <<>>
          /\ exit_code = 70 => RuntimeErrorOccurred
          /\ exit_code \in {64, 74} =>
                /\ tokens = <<>>
                /\ executed = <<>>
                /\ vm = VM_new
                /\ compiler = Compiler_new(<<>>)
    /\ (args_len >= 2 /\ phase # "exit") => exit_code = -1

\* a file whose expression fails at run time has ended the process with 70
C22_Witness ==
    /\ FileModeEnded
    /\ exit_code = 70
    /\ result.kind = "RuntimeError"
    /\ RuntimeErrorOccurred
    /\ executed # <<>>

\* VM::run on a VM, to its end: the Step that is no "continue"
RECURSIVE RunToEnd(_)
RunToEnd(v) == IF run_step(v).status = "continue" THEN RunToEnd(run_step(v).vm) ELSE run_step(v)

\* what interpret comes to on a VM just made by VM::new, for the compiled chunk
FreshRun == RunToEnd(install(VM_new, chunk))

\* interpret has returned to the loop of repl, the line having compiled
ReplLineRun == args_len = 1 /\ phase = "returned" /\ result.kind # "CompileError"

\* C23: in REPL mode one VM serves all lines: an error on a line never ends
\* the loop, which ends only when a read gives no byte or fails, and what
\* interpret comes to on a line is what it comes to on a fresh VM, whatever
\* lines came before: the same result, output, diagnostics and final VM.
C23_ReplReusesVM ==
    /\ [](args_len = 1 => phase # "panic" /\ exit_code \in {-1, 0})
    /\ [](ReplLineRun =>
             /\ FreshRun.status = (IF result.kind = "Ok" THEN "return" ELSE "runtime_error")
             /\ result.value = FreshRun.value
             /\ stdout = FreshRun.out
             /\ stderr = FreshRun.err
             /\ vm = FreshRun.vm)
    /\ []((args_len = 1 /\ phase = "returned" /\ result.kind = "CompileError") =>
             vm = entry_vm /\ executed = <<>>)
    /\ []((args_len = 1 /\ phase \in {"compile", "run", "returned"}) => entry_vm.stack = <<>>)
    /\ [][args_len = 1 =>
              /\ phase = "returned" => phase' = "repl"
              /\ phase' = "exit" => phase = "repl"]_vars

\* the second line has been evaluated on the VM on which the first line,
\* -nil, had failed at its Negate
C23_Witness ==
    /\ args_len = 1
    /\ nlines = 2
    /\ phase = "returned"
    /\ result.kind = "Ok"
    /\ entry_vm.chunk.code = <<OP_NIL, OP_NEGATE, OP_RETURN>>
    /\ entry_vm.ip = 2
    /\ vm.chunk # entry_vm.chunk

\* compile() has read the source to its end: EndOfFile is the current token
\* and compile() is about to return
AtEndOfInput ==
    /\ phase = "compile"
    /\ TopFrame.fn = "compile"
    /\ TopFrame.pc = "return"
    /\ compiler.parser.current.kind = "EndOfFile"

\* C24 (as stated): panic_mode, set by a reported error, is cleared when the
\* parser reaches the end of the input: it is false when compile() has read
\* the source to its end.
C24_PanicModeCleared == AtEndOfInput => ~compiler.parser.panic_mode

\* a step of compile() in which an error is reported
ErrorReported == phase = "compile" /\ Len(stderr') > Len(stderr)

Running == phase = "run" \/ (phase = "returned" /\ result.kind # "CompileError")

\* the bytes the opcode at offset i takes: itself, and the operand of a Constant
OpcodeSize(ch, i) == IF ch.code[i + 1] = OP_CONSTANT THEN 2 ELSE 1

\* C26: while a chunk of a successful compile runs, 0 <= ip <= len(code); ip
\* only increases, by 1 per opcode and by 2 for Constant; the VM never reads
\* code at ip = len(code) and never takes an operand byte or an unknown byte
\* for an opcode; run() halts after at most len(code) dispatches, at the
\* terminal Return or at the first runtime error.
C26_InstructionPointer ==
    /\ [](Running =>
             /\ vm.ip \in 0..Len(vm.chunk.code)
             /\ Len(executed) <= Len(vm.chunk.code)
             /\ \A k \in 1..Len(executed) : executed[k] \in OpcodeOffsets(vm.chunk))
    /\ [](phase = "run" =>
             /\ vm.ip < Len(vm.chunk.code)
             /\ vm.ip \in OpcodeOffsets(vm.chunk)
             /\ vm.chunk.code[vm.ip + 1] \in OpCodes)
    /\ []((phase = "returned" /\ result.kind = "Ok") =>
             /\ Last(executed) = Len(vm.chunk.code) - 1
             /\ vm.chunk.code[Last(executed) + 1] = OP_RETURN
             /\ vm.ip = Len(vm.chunk.code))
    /\ []((phase = "returned" /\ result.kind = "RuntimeError") =>
             /\ vm.ip = Last(executed) + 1
             /\ Len(ScriptDiagnostics) = 1)
    /\ [][phase = "run" =>
              /\ phase' \in {"run", "returned"}
              /\ vm'.chunk = vm.chunk
              /\ vm'.ip = vm.ip + (IF phase' = "run" THEN OpcodeSize(vm.chunk, vm.ip) ELSE 1)
              /\ executed' = Append(executed, vm.ip)]_vars

\* two Constants, a binary opcode and Return have run: ip went 0, 2, 4, 5, 6
C26_Witness ==
    /\ phase = "returned"
    /\ result.kind = "Ok"
    /\ executed = <<0, 2, 4, 5>>
    /\ vm.ip = 6
    /\ Len(vm.chunk.code) = 6
    /\ vm.chunk.code[3] = OP_CONSTANT

\* what an opcode needs on the stack and what it adds to its depth
StackNeed(op) ==
    CASE op \in {OP_CONSTANT, OP_NIL, OP_TRUE, OP_FALSE} -> 0
      [] op \in {OP_NEGATE, OP_NOT, OP_RETURN} -> 1
      [] OTHER -> 2

StackEffect(op) ==
    CASE op \in {OP_CONSTANT, OP_NIL, OP_TRUE, OP_FALSE} -> 1
      [] op \in {OP_NEGATE, OP_NOT} -> 0
      [] OTHER -> -1

\* the depth the opcodes at the offsets offs leave, from an empty stack
RECURSIVE DepthAfter(_, _)
DepthAfter(ch, offs) ==
    IF offs = <<>> THEN 0
    ELSE DepthAfter(ch, SubSeq(offs, 1, Len(offs) - 1)) + StackEffect(ch.code[Last(offs) + 1])

\* C27: for every source that compiles, run on a VM whose stack is empty, no
\* opcode pops or inspects an empty stack (the panic `Stack exhausted` is
\* unreachable), the stack holds exactly one value when Return executes, and
\* it is empty again when interpret returns, with Ok or with RuntimeError;
\* the depth between opcodes is that of the opcodes executed so far.
C27_StackDiscipline ==
    /\ phase \in {"compile", "run", "returned"} => entry_vm.stack = <<>>
    /\ phase # "panic"
    /\ phase = "run" =>
          /\ StackNeed(vm.chunk.code[vm.ip + 1]) <= Len(vm.stack)
          /\ run_step(vm).status # "panic"
          /\ Len(vm.stack) = DepthAfter(vm.chunk, executed)
          /\ vm.chunk.code[vm.ip + 1] = OP_RETURN => Len(vm.stack) = 1
    /\ (phase = "returned" /\ result.kind # "CompileError") => vm.stack = <<>>
    /\ (phase = "returned" /\ result.kind = "Ok") =>
          DepthAfter(vm.chunk, executed) = 0

\* a comparison of two sums is about to return: four values have been
\* pushed, three binary opcodes have run, one value is on the stack
C27_Witness ==
    /\ phase = "run"
    /\ vm.chunk.code[vm.ip + 1] = OP_RETURN
    /\ Len(vm.stack) = 1
    /\ Len(executed) = 7
    /\ vm.stack[1].tag = "Bool"

\* the scanner with current at offset i
ScannerAt(i) == [compiler.scanner EXCEPT !.current = i]

\* the offsets of the bytes of the source
SourceOffsets == 0..(Len(compiler.scanner.source) - 1)

\* C28: in every state of the scanner start <= current <= len(source);
\* neither start nor current decreases from one call of scan_token to the
\* next; a call that returns a token other than EndOfFile moves current on by
\* at least 1; and no helper reads a byte at an offset >= len(source):
\* advance has read the bytes below current, peek, peek_next and match_ch
\* read at no position a byte that is not there, the keyword check reads
\* inside the lexeme.
C28_ScannerBounds ==
    /\ [](phase = "scan" =>
             /\ 0 <= compiler.scanner.start
             /\ compiler.scanner.start <= compiler.scanner.current
             /\ compiler.scanner.current <= Len(compiler.scanner.source)
             /\ \A i \in 0..Len(compiler.scanner.source) :
                   /\ peek_reads(ScannerAt(i)) \subseteq SourceOffsets
                   /\ peek_next_reads(ScannerAt(i)) \subseteq SourceOffsets
                   /\ match_ch_reads(ScannerAt(i)) \subseteq SourceOffsets
             /\ (/\ tokens # <<>>
                 /\ compiler.scanner.start < compiler.scanner.current
                 /\ IdentifierShaped(Last(tokens))) =>
                   identifier_reads(compiler.scanner) \subseteq SourceOffsets)
    /\ [][phase = "scan" =>
              /\ compiler'.scanner.start >= compiler.scanner.start
              /\ compiler'.scanner.start >= compiler.scanner.current
              /\ compiler'.scanner.current >= compiler.scanner.current
              /\ compiler'.scanner.source = compiler.scanner.source
              /\ Last(tokens').kind # "EndOfFile" =>
                    compiler'.scanner.current >= compiler.scanner.current + 1]_vars

\* a string that is not closed has been scanned to the end of the source
\* after a token and a blank: start and current have moved on, current is
\* at len(source)
C28_Witness ==
    /\ phase = "scan"
    /\ Len(tokens) = 2
    /\ tokens[2] = [kind |-> "Error", lexeme |-> Msg("Unterminated string."), line |-> 1]
    /\ compiler.scanner.start = 2
    /\ compiler.scanner.current = 3
    /\ Len(compiler.scanner.source) = 3

\* the calls of parse_precedence that have not returned
ParseDepth == Cardinality({i \in DOMAIN frames : frames[i].fn = "parse_precedence"})

\* the tokens of the source advance() has passed to the parser so far
Consumed == Len(SelectSeq(tokens, LAMBDA t : t.kind \notin {"Error", "EndOfFile"}))

\* C29: compile() terminates for every source: a compile that has begun
\* returns; parse_precedence is never entered with Precedence::None; its loop
\* returns when the current token has no infix precedence, as EndOfFile has
\* none; a turn of the loop of advance() that goes round again has scanned an
\* Error token and has moved the scanner on, and EndOfFile ends the loop; a
\* nested call (grouping, unary, the right operand of binary) is made with a
\* token of the source consumed for it, and none is made at EndOfFile.
C29_CompileTerminates ==
    /\ [](phase = "compile" =>
             /\ \A i \in DOMAIN frames :
                   frames[i].fn = "parse_precedence" => frames[i].prec # PREC_NONE
             /\ ParseDepth <= Consumed + 1
             /\ get_rule_precedence("EndOfFile") = PREC_NONE)
    /\ [][phase = "compile" =>
              /\ (/\ TopFrame.fn = "parse_precedence"
                  /\ TopFrame.pc = "loop"
                  /\ get_rule_precedence(compiler.parser.current.kind) = PREC_NONE) =>
                    /\ frames' = Return
                    /\ tokens' = tokens
              /\ TopFrame.fn = "advance" =>
                    /\ Last(tokens').kind = "EndOfFile" => frames' = Return
                    /\ frames' = frames =>
                          /\ Last(tokens').kind = "Error"
                          /\ compiler'.scanner.current > compiler.scanner.current
              /\ Len(frames') > Len(frames) /\ TopFrame.pc \in {"prefix", "infix"} =>
                    compiler.parser.previous.kind \notin {"EndOfFile", "Error"}]_vars
    /\ (phase = "compile") ~> (phase \in {"run", "returned"})

\* the compile of "(-(" has returned: three nested calls were made, each
\* after a token, and the calls at EndOfFile made none
C29_Witness ==
    /\ phase = "returned"
    /\ compiler.scanner.source = <<"(", "-", "(">>
    /\ result.kind = "CompileError"
    /\ Consumed = 3
    /\ Len(tokens) > 3
    /\ frames = <<>>

\* the ten token kinds binary() has an arm for
BinaryOperators ==
    {"Minus", "Plus", "Slash", "Star", "BangEqual", "EqualEqual", "Greater",
     "GreaterEqual", "Less", "LessEqual"}

\* parse_precedence is about to call do_rule_prefix, do_rule_infix
AtPrefix == phase = "compile" /\ TopFrame.fn = "parse_precedence" /\ TopFrame.pc = "prefix"

AtInfix == phase = "compile" /\ TopFrame.fn = "parse_precedence" /\ TopFrame.pc = "infix"

\* C30: no internal-error branch of the parser is reached: binary() is
\* entered, and picks its opcode, only with one of the ten binary operator
\* tokens, unary() only with Minus or Bang, literal() only with False, True
\* or Nil; do_rule_infix always calls binary() and never reports
\* `Expect expression.`, as every token kind with an infix precedence other
\* than None has the binary rule.
C30_NoInternalError ==
    /\ [](/\ phase # "panic"
          /\ \A kind \in TokenKind :
                get_rule_precedence(kind) # PREC_NONE <=> infix_rule(kind) = "binary"
          /\ phase = "compile" =>
                \A i \in DOMAIN frames :
                   /\ frames[i].fn = "binary" =>
                         /\ frames[i].op \in BinaryOperators
                         /\ binary_bytes(frames[i].op) # <<>>
                   /\ frames[i].fn = "unary" =>
                         /\ frames[i].op \in {"Minus", "Bang"}
                         /\ unary_bytes(frames[i].op) # <<>>
          /\ (AtPrefix /\ prefix_rule(compiler.parser.previous.kind) = "literal") =>
                /\ compiler.parser.previous.kind \in {"False", "True", "Nil"}
                /\ literal(compiler, chunk).ok
          /\ AtInfix =>
                /\ compiler.parser.previous.kind \in BinaryOperators
                /\ infix_rule(compiler.parser.previous.kind) = "binary")
    /\ [][AtInfix =>
              /\ frames' = Append(Goto("loop"),
                                  Frame("binary", "call", PREC_NONE,
                                        compiler.parser.previous.kind))
              /\ stderr' = stderr
              /\ compiler' = compiler]_vars

\* in `false != nil` both literals are emitted and binary(), entered with
\* BangEqual, is about to pick its opcodes
C30_Witness ==
    /\ phase = "compile"
    /\ TopFrame.fn = "binary"
    /\ TopFrame.pc = "emit"
    /\ TopFrame.op = "BangEqual"
    /\ chunk.code = <<OP_FALSE, OP_NIL>>

\* the lines of a chunk do not decrease along the code
LinesNonDecreasing(ch) == \A i \in 1..(Len(ch.lines) - 1) : ch.lines[i] <= ch.lines[i + 1]

\* the operand byte of every Constant instruction has the line of its opcode
OperandOnOpcodeLine(ch) ==
    \A at \in OpcodeOffsets(ch) :
        ch.code[at + 1] = OP_CONSTANT => ch.lines[at + 2] = ch.lines[at + 1]

\* C31: in the chunk compile() is writing, and in every chunk it has
\* returned, there is one line per byte, the lines do not decrease along the
\* code, every line is at least 1 (line 0 of the tokens the parser starts
\* with is never written), and the operand byte of a Constant has the line
\* of its opcode byte.
C31_LineMap ==
    phase \in {"compile", "run", "returned"} =>
        /\ Len(chunk.lines) = Len(chunk.code)
        /\ LinesNonDecreasing(chunk)
        /\ \A i \in DOMAIN chunk.lines : chunk.lines[i] >= 1
        /\ OperandOnOpcodeLine(chunk)
        /\ NothingReadYet.line = 0
        /\ Compiled => vm.chunk = chunk

\* `5 \n * \n 6` is compiled and about to run: the operand of each Constant
\* is on the line of its opcode, and the lines go from 1 to 3
C31_Witness ==
    /\ phase = "run"
    /\ vm.ip = 0
    /\ vm.chunk.code = <<OP_CONSTANT, 0, OP_CONSTANT, 1, OP_MULTIPLY, OP_RETURN>>
    /\ vm.chunk.lines = <<1, 1, 3, 3, 3, 3>>
    /\ OpcodeOffsets(vm.chunk) = {0, 2, 4, 5}

\* the number of '\n' among the first n bytes of a source
Newlines(source, n) == Cardinality({i \in 1..n : source[i] = "\n"})

\* C32: whenever scan_token has returned, the scanner's line is 1 plus the
\* number of '\n' in source[0..current]: a line end is counted once, be it
\* blank space between tokens, the end of a `//` comment or inside a string
\* literal; the line never decreases.
C32_LineCount ==
    /\ [](phase = "scan" =>
             compiler.scanner.line =
                1 + Newlines(compiler.scanner.source, compiler.scanner.current))
    /\ [][phase = "scan" => compiler'.scanner.line >= compiler.scanner.line]_vars

\* a comment ended by a line end, a string with a line end in it and a line
\* end after the string have been scanned: the token after them is on line 4
C32_Witness ==
    /\ phase = "scan"
    /\ compiler.scanner.source = <<"1", "/", "/", "\n", "\"", "\n", "\"", "\n", "2">>
    /\ Len(tokens) = 3
    /\ tokens[2].kind = "String"
    /\ tokens[3] = [kind |-> "Number", lexeme |-> <<"2">>, line |-> 4]
    /\ compiler.scanner.line = 4

\* the position (from 1) after the longest run of digits of a source that
\* begins at position i
RunEnd(source, i) ==
    CHOOSE j \in i..(Len(source) + 1) :
        /\ \A k \in i..(j - 1) : source[k] \in ASCII_DIGIT
        /\ j = Len(source) + 1 \/ source[j] \notin ASCII_DIGIT

\* the position after the number literal of a source that begins at position
\* i: the digits, and a '.' with the digits after it when there is at least one
NumberEnd(source, i) ==
    LET j == RunEnd(source, i) IN
    IF j + 1 <= Len(source) /\ source[j] = "." /\ source[j + 1] \in ASCII_DIGIT
    THEN RunEnd(source, j + 1)
    ELSE j

\* scan_token has just returned a Number token
NumberScanned == phase = "scan" /\ tokens # <<>> /\ Last(tokens).kind = "Number"

\* C33: the lexeme of a Number token is the longest run of ASCII digits,
\* with a '.' and the digits after it only when a digit follows the '.' at
\* once; a '.' that no digit follows (as in `1.` and `1.x`, and when it is
\* the last byte) is left for the next call, which returns it as a Dot token.
C33_NumberLexeme ==
    /\ [](NumberScanned =>
             LET sc == compiler.scanner IN
             /\ sc.source[sc.start + 1] \in ASCII_DIGIT
             /\ sc.current + 1 = NumberEnd(sc.source, sc.start + 1)
             /\ Last(tokens).lexeme = SubSeq(sc.source, sc.start + 1, sc.current)
             /\ Last(tokens).lexeme[Len(Last(tokens).lexeme)] \in ASCII_DIGIT)
    /\ [][(/\ NumberScanned
           /\ compiler.scanner.current < Len(compiler.scanner.source)
           /\ compiler.scanner.source[compiler.scanner.current + 1] = ".") =>
              /\ Last(tokens').kind = "Dot"
              /\ Last(tokens').lexeme = <<".">>
              /\ compiler'.scanner.start = compiler.scanner.current]_vars

\* `1.x`: Number `1`, then the Dot, then the identifier
C33_Witness ==
    /\ phase = "scan"
    /\ compiler.scanner.source = <<"1", ".", "x">>
    /\ Len(tokens) = 3
    /\ tokens[1] = [kind |-> "Number", lexeme |-> <<"1">>, line |-> 1]
    /\ tokens[2] = [kind |-> "Dot", lexeme |-> <<".">>, line |-> 1]
    /\ tokens[3].kind = "Identifier"

\* consume() is about to be called by grouping() and the current token is
\* not the ')'
ParenMissing ==
    /\ phase = "compile"
    /\ TopFrame.fn = "grouping"
    /\ TopFrame.pc = "consume"
    /\ compiler.parser.current.kind # "RightParen"

\* the line grouping() reports a missing ')' with, at the current token
ParenDiagnostic == Diagnostic(compiler.parser.current, Msg("Expect ')' after expression."))

\* the line before compiled, and this line is that line in parentheses
InnerCompiled == nlines >= 2 /\ PastCompile /\ entry_vm.chunk.code # <<>>

\* C34 (as stated): grouping emits nothing, and a missing ')' is reported
\* with "Expect ')' after expression." at the current token
C34_MissingParenReported ==
    [][ParenMissing => stderr' = Append(stderr, ParenDiagnostic)]_vars

\* C34: grouping emits no bytes of its own: when E compiles, `(E)` compiles,
\* to the code bytes and the constant pool of E.  Where the ')' is missing
\* once the expression inside has been parsed, consume() takes no token and
\* reports "Expect ')' after expression." at the current token, unless an
\* error was reported earlier in the same compile (then nothing is written);
\* in both cases the compile result is CompileError.
C34_Grouping ==
    /\ [](/\ InnerCompiled =>
                /\ Compiled
                /\ vm.chunk.code = entry_vm.chunk.code
                /\ vm.chunk.constants = entry_vm.chunk.constants
          /\ phase = "run" => ~compiler.parser.had_error
          /\ (phase = "returned" /\ compiler.parser.had_error) =>
                result.kind = "CompileError")
    /\ [][ParenMissing =>
              /\ stderr' = IF compiler.parser.panic_mode THEN stderr
                           ELSE Append(stderr, ParenDiagnostic)
              /\ compiler'.parser.had_error
              /\ compiler'.parser.current = compiler.parser.current
              /\ compiler'.scanner = compiler.scanner
              /\ chunk' = chunk]_vars
    /\ [][(phase = "compile" /\ compiler.parser.had_error) =>
              compiler'.parser.had_error /\ phase' \in {"compile", "returned"}]_vars

\* `(-1 + 2) * 3 - -4` was compiled and run, and the same in parentheses has
\* compiled to the same code and constants
C34_Witness ==
    /\ phase = "run"
    /\ nlines = 2
    /\ vm.ip = 0
    /\ compiler.scanner.source =
          <<"(", "(", "-", "1", " ", "+", " ", "2", ")", " ", "*", " ", "3", " ", "-", " ",
            "-", "4", ")">>
    /\ Len(vm.chunk.code) = 14
    /\ vm.chunk.code = entry_vm.chunk.code
    /\ vm.chunk.constants = entry_vm.chunk.constants
    /\ Len(vm.chunk.constants) = 4

\* the byte of each opcode
Numbering ==
    [Return |-> 0, Constant |-> 1, Negate |-> 2, Add |-> 3, Subtract |-> 4, Multiply |-> 5,
     Divide |-> 6, Nil |-> 7, True |-> 8, False |-> 9, Not |-> 10, Equal |-> 11,
     Greater |-> 12, Less |-> 13]

\* C35: the conversion between opcodes and bytes goes there and back: each
\* of the 14 opcodes is written as the byte of the numbering Return=0,
\* Constant=1, Negate=2, Add=3, Subtract=4, Multiply=5, Divide=6, Nil=7,
\* True=8, False=9, Not=10, Equal=11, Greater=12, Less=13, and decoding that
\* byte gives back the opcode; decoding a byte in 14..255 is an error.
C35_OpCodeRoundTrip ==
    /\ [](/\ DOMAIN Numbering = {OpCode[i] : i \in DOMAIN OpCode}
          /\ Len(OpCode) = 14
          /\ \A opcode \in DOMAIN Numbering : OpCode_as_u8(opcode) = Numbering[opcode]
          /\ <<OP_RETURN, OP_CONSTANT, OP_NEGATE, OP_ADD, OP_SUBTRACT, OP_MULTIPLY,
               OP_DIVIDE, OP_NIL, OP_TRUE, OP_FALSE, OP_NOT, OP_EQUAL, OP_GREATER,
               OP_LESS>> = [i \in 1..14 |-> OpCode_as_u8(OpCode[i])]
          /\ result.kind = "OpCode" => chunk.code = <<Numbering[result.value]>>)
    /\ [][(phase = "opcode" /\ chunk.code # <<>>) =>
              /\ result.kind = "OpCode" =>
                    result' = [kind |-> "Ok", value |-> result.value]
              /\ chunk.code[1] \in 0..13 =>
                    /\ result'.kind = "Ok"
                    /\ Numbering[result'.value] = chunk.code[1]
              /\ chunk.code[1] \in 14..255 => result'.kind = "Err"]_vars

\* Less was written as 13, and 13 was decoded as Less
C35_Witness ==
    /\ phase = "decoded"
    /\ chunk.code = <<13>>
    /\ chunk.code = <<OpCode_as_u8("Less")>>
    /\ result = [kind |-> "Ok", value |-> "Less"]

====
